---- MODULE Spec2Model ----
(***************************************************************************)
(* Model of the zoopla-scraper core: the field extractor                   *)
(* (fields_extractor.extract_from_html), the six-month crime aggregator    *)
(* (uk_police_api.aggregate_6month_crime) with its month keys and its      *)
(* summary sentence, the loop that summarises each property                *)
(* (uk_police_api.run_property_crime_summaries) and the merge of the       *)
(* summaries into the scraped records                                      *)
(* (real_estate_data_pipeline.run_crime_data_step).                        *)
(*                                                                         *)
(* Python strings are sequences of one-character strings, so that strip,   *)
(* lower, capitalize, replace and the money pattern are computed and not   *)
(* assumed.  A Python value is a record [t, s]: t is the Python type and s *)
(* is what str(value) renders, for a str the string itself.                *)
(***************************************************************************)
EXTENDS Integers, Sequences, FiniteSets, TLC

VARIABLES
    html,             \* extract_from_html: the document argument
    visible_text,     \* extract_from_html: the optional visible text argument
    result,           \* extract_from_html: what the call produced
    today,            \* datetime.date.today() as <<year, month>>
    pc,               \* aggregate_6month_crime: position in the function
    months,           \* aggregate_6month_crime: months
    idx,              \* aggregate_6month_crime: index of ym in months
    monthly_counts,   \* aggregate_6month_crime: monthly_counts
    all_crimes,       \* aggregate_6month_crime: all_crimes
    agg,              \* aggregate_6month_crime: the returned dict
    calls,            \* history: the requests.get and time.sleep calls, in order
    summary_args,     \* build_accurate_summary: address, postcode and agg
    summary,          \* build_accurate_summary: what the call returned
    scraped,          \* run_crime_data_step: the records of the scraped file
    summaries,        \* run_crime_data_step: the records of the summaries file
    by_coords,        \* run_crime_data_step: by_coords
    by_addr,          \* run_crime_data_step: by_addr
    cursor,           \* run_crime_data_step: position of c in summaries
    embedded_count,   \* run_crime_data_step: embedded_count
    merge_log,        \* history: what the loop did with each summary
    mpc,              \* run_crime_data_step: position in the merge
    loader,           \* which load_properties run_property_crime_summaries calls
    properties,       \* run_property_crime_summaries: properties
    position,         \* run_property_crime_summaries: position of prop
    invocations,      \* history: the calls of aggregate_6month_crime, in order
    results,          \* run_property_crime_summaries: results
    rpc,              \* run_property_crime_summaries: position in the function
    query,            \* geoapify_geocode: query
    attempt,          \* geoapify_geocode: attempt
    responses,        \* history: what each requests.get of the geocoder met
    sleeps,           \* history: the seconds of each time.sleep of the geocoder
    geo_result,       \* geoapify_geocode: what the outermost call returned
    gpc,              \* geoapify_geocode: position in the function
    run_status,       \* RealEstateDataPipeline: self.run_status
    clock,            \* datetime.now() as a count of the readings so far
    started,          \* history: the stages started, in order
    returned,         \* run_pipeline: what the call returned
    saved,            \* history: the overall_status of each save_run_summary
    ppc               \* run_pipeline: position in the function

vars == <<html, visible_text, result, today, pc, months, idx,
          monthly_counts, all_crimes, agg, calls, summary_args, summary,
          scraped, summaries, by_coords, by_addr, cursor, embedded_count,
          merge_log, mpc, loader, properties, position, invocations, results,
          rpc, query, attempt, responses, sleeps, geo_result, gpc,
          run_status, clock, started, returned, saved, ppc>>

extractVars == <<html, visible_text, result>>
crimeVars == <<today, pc, months, idx, monthly_counts, all_crimes, agg, calls>>
summaryVars == <<summary_args, summary>>
mergeVars == <<scraped, summaries, by_coords, by_addr, cursor, embedded_count,
               merge_log, mpc>>

runVars == <<loader, properties, position, invocations, results, rpc>>
geoVars == <<query, attempt, responses, sleeps, geo_result, gpc>>
pipeVars == <<run_status, clock, started, returned, saved, ppc>>

\* what each state machine leaves alone
exceptExtract == <<crimeVars, summaryVars, mergeVars, runVars, geoVars, pipeVars>>
exceptCrime == <<extractVars, summaryVars, mergeVars, runVars, geoVars, pipeVars>>
exceptSummary == <<extractVars, crimeVars, mergeVars, runVars, geoVars, pipeVars>>
exceptMerge == <<extractVars, crimeVars, summaryVars, runVars, geoVars, pipeVars>>
exceptStep == <<extractVars, crimeVars, summaryVars, geoVars, pipeVars>>
exceptGeo == <<extractVars, crimeVars, summaryVars, mergeVars, runVars, pipeVars>>
exceptPipe == <<extractVars, crimeVars, summaryVars, mergeVars, runVars, geoVars>>

-----------------------------------------------------------------------------
(* Python strings and values                                               *)

Digits == {"0", "1", "2", "3", "4", "5", "6", "7", "8", "9"}
DigitSeq == <<"0", "1", "2", "3", "4", "5", "6", "7", "8", "9">>
UpperChars == <<"A", "B", "C", "D", "E", "F", "G", "H", "I", "J", "K", "L", "M",
                "N", "O", "P", "Q", "R", "S", "T", "U", "V", "W", "X", "Y", "Z">>
LowerChars == <<"a", "b", "c", "d", "e", "f", "g", "h", "i", "j", "k", "l", "m",
                "n", "o", "p", "q", "r", "s", "t", "u", "v", "w", "x", "y", "z">>

IsSpace(c) == c \in {" ", "\n", "\t"}

LowerChar(c) ==
    IF \E i \in DOMAIN UpperChars : UpperChars[i] = c
    THEN LowerChars[CHOOSE i \in DOMAIN UpperChars : UpperChars[i] = c]
    ELSE c

UpperChar(c) ==
    IF \E i \in DOMAIN LowerChars : LowerChars[i] = c
    THEN UpperChars[CHOOSE i \in DOMAIN LowerChars : LowerChars[i] = c]
    ELSE c

\* str.lower()
Lower(s) == [i \in DOMAIN s |-> LowerChar(s[i])]

\* str.upper()
Upper(s) == [i \in DOMAIN s |-> UpperChar(s[i])]

\* str.capitalize(): first character upper-cased, the rest lower-cased
Capitalize(s) == [i \in DOMAIN s |-> IF i = 1 THEN UpperChar(s[i]) ELSE LowerChar(s[i])]

RECURSIVE LStrip(_)
LStrip(s) == IF s # <<>> /\ IsSpace(Head(s)) THEN LStrip(Tail(s)) ELSE s

RECURSIVE RStrip(_)
RStrip(s) ==
    IF s # <<>> /\ IsSpace(s[Len(s)]) THEN RStrip(SubSeq(s, 1, Len(s) - 1)) ELSE s

\* str.strip()
Strip(s) == RStrip(LStrip(s))

\* str.replace(c, "")
RemoveChar(s, c) == SelectSeq(s, LAMBDA x : x # c)

IsDigits(s) == s # <<>> /\ \A i \in DOMAIN s : s[i] \in Digits

DigitValue(c) == (CHOOSE i \in DOMAIN DigitSeq : DigitSeq[i] = c) - 1

RECURSIVE DigitsToInt(_)
DigitsToInt(s) ==
    IF s = <<>> THEN 0
    ELSE 10 * DigitsToInt(SubSeq(s, 1, Len(s) - 1)) + DigitValue(s[Len(s)])

RECURSIVE IntToDigits(_)
IntToDigits(n) ==
    IF n < 10 THEN <<DigitSeq[n + 1]>>
    ELSE IntToDigits(n \div 10) \o <<DigitSeq[(n % 10) + 1]>>

\* the longest prefix of s made of digits
RECURSIVE DigitRun(_)
DigitRun(s) ==
    IF s # <<>> /\ Head(s) \in Digits THEN <<Head(s)>> \o DigitRun(Tail(s)) ELSE <<>>

\* s from its first digit on (<<>> when s has no digit)
RECURSIVE FromFirstDigit(_)
FromFirstDigit(s) ==
    IF s = <<>> \/ Head(s) \in Digits THEN s ELSE FromFirstDigit(Tail(s))

RECURSIVE Join(_, _)
Join(parts, sep) ==
    IF parts = <<>> THEN <<>>
    ELSE IF Len(parts) = 1 THEN parts[1]
    ELSE parts[1] \o sep \o Join(Tail(parts), sep)

Str(s) == [t |-> "str", s |-> s]
PyNone == [t |-> "none", s |-> <<"N", "o", "n", "e">>]
PyTrue == [t |-> "bool", s |-> <<"T", "r", "u", "e">>]
PyFalse == [t |-> "bool", s |-> <<"F", "a", "l", "s", "e">>]
PyInt(n) == [t |-> "int", s |-> IntToDigits(n)]
EmptyStr == Str(<<>>)
PyList(repr) == [t |-> "list", s |-> repr]
EmptyList == PyList(<<"[", "]">>)

\* a dict with string keys is a function; {} is the function with no key
EmptyDict == [k \in {} |-> PyNone]

\* a dict held as a value (a nested JSON object)
PyDict(items) ==
    [t |-> "dict",
     s |-> IF DOMAIN items = {} THEN <<"{", "}">> ELSE <<"{", ".", ".", ".", "}">>,
     items |-> items]

\* bool(v)
Truthy(v) ==
    CASE v.t = "none" -> FALSE
      [] v.t = "str" -> v.s # <<>>
      [] v.t = "int" -> v.s # <<"0">>
      [] v.t = "bool" -> v = PyTrue
      [] v.t = "list" -> v.s # <<"[", "]">>
      [] v.t = "dict" -> v.s # <<"{", "}">>
      [] OTHER -> TRUE

\* a or b
Or(a, b) == IF Truthy(a) THEN a ELSE b

\* str(v)
ToStr(v) == Str(v.s)

\* d.get(k)
Get(d, k) == IF k \in DOMAIN d THEN d[k] ELSE PyNone

\* d.update(e): the keys of e are set, replacing what d held
Update(d, e) == [k \in DOMAIN d \cup DOMAIN e |-> IF k \in DOMAIN e THEN e[k] ELSE d[k]]

\* d[k] = v
Put(d, k, v) == [j \in DOMAIN d \cup {k} |-> IF j = k THEN v ELSE d[j]]

\* d.setdefault(k, v): set only when d has no key k, whatever value it holds
SetDefault(d, k, v) == IF k \in DOMAIN d THEN d ELSE Put(d, k, v)

-----------------------------------------------------------------------------
(* fields_extractor.py: helpers                                            *)

\* the value of int(s): s is stripped and must be all digits, else ValueError
\* (the patterns that feed it capture digits and commas only)
_coerce_int(val) ==
    LET s == Strip(RemoveChar(val.s, ","))
    IN  IF IsDigits(s) THEN PyInt(DigitsToInt(s)) ELSE PyNone

\* group 1 of re.search(r"£?\s*(\d+(?:\.\d+)?)", s): the leftmost match ends
\* in the first run of digits of s, with ".digits" when that follows the run
MoneyGroup(s) ==
    LET rest == FromFirstDigit(s)
        whole == DigitRun(rest)
        after == SubSeq(rest, Len(whole) + 1, Len(rest))
        frac == IF after # <<>> /\ Head(after) = "." THEN DigitRun(Tail(after)) ELSE <<>>
    IN  IF whole = <<>> THEN PyNone
        ELSE IF frac = <<>> THEN Str(whole)
        ELSE Str(whole \o <<".">> \o frac)

_norm_money(val) ==
    IF ~Truthy(val) THEN PyNone
    ELSE MoneyGroup(RemoveChar(Strip(val.s), ","))

\* "£" + s
Pound(s) == <<"£">> \o s

-----------------------------------------------------------------------------
(* fields_extractor.py: the embedded JSON blocks                           *)
(*                                                                         *)
(* A script block of the document is [kind, obj]: kind "absent" when the   *)
(* pattern does not match, "malformed" when json.loads raises on the       *)
(* matched text, "object" when it parses; both patterns capture text that  *)
(* starts with "{", so a parsed block is always a dict.                    *)

\* x.strip() raises AttributeError unless x is a str
CanStrip(v) == v.t = "str"

\* the dict literal handed to out.update(); building it raises when
\* property_type or tenure holds a truthy value that is not a string
ZadFields(zad_json) ==
    LET ptype == Or(Get(zad_json, "property_type"), EmptyStr)
        ten == Or(Get(zad_json, "tenure"), EmptyStr)
        flag(k) == IF k \in DOMAIN zad_json
                   THEN Str(Capitalize(Get(zad_json, k).s))
                   ELSE EmptyStr
        keys == {"listing_id", "price", "property_type", "tenure", "bedrooms",
                 "bathrooms", "receptions", "has_epc", "has_floorplan",
                 "size_sq_feet", "display_address", "outcode", "agent", "chain_free"}
    IN  IF ~CanStrip(ptype) \/ ~CanStrip(ten)
        THEN [raised |-> TRUE, value |-> EmptyDict]
        ELSE [raised |-> FALSE,
              value |-> [k \in keys |->
                CASE k = "listing_id" -> ToStr(Or(Get(zad_json, "listing_id"), EmptyStr))
                  [] k = "price" ->
                        ToStr(Or(Get(zad_json, "price_actual"),
                                 Or(Get(zad_json, "price"), EmptyStr)))
                  [] k = "property_type" -> Str(Strip(ptype.s))
                  [] k = "tenure" -> Str(Lower(Strip(ten.s)))
                  [] k = "bedrooms" -> ToStr(Or(Get(zad_json, "num_beds"), EmptyStr))
                  [] k = "bathrooms" -> ToStr(Or(Get(zad_json, "num_baths"), EmptyStr))
                  [] k = "receptions" -> ToStr(Or(Get(zad_json, "num_recepts"), EmptyStr))
                  [] k = "has_epc" -> flag("has_epc")
                  [] k = "has_floorplan" -> flag("has_floorplan")
                  [] k = "size_sq_feet" -> ToStr(Or(Get(zad_json, "size_sq_feet"), EmptyStr))
                  [] k = "display_address" -> Or(Get(zad_json, "display_address"), EmptyStr)
                  [] k = "outcode" -> Or(Get(zad_json, "outcode"), EmptyStr)
                  [] k = "agent" ->
                        Or(Get(zad_json, "branch_name"),
                           Or(Get(zad_json, "brand_name"), EmptyStr))
                  [] OTHER -> flag("chain_free")]]

\* step 2 without its try/except: an exception leaves the function
ZadLayerUncaught(out, zad) ==
    IF zad.kind = "absent" THEN [raised |-> FALSE, out |-> out]
    ELSE IF zad.kind = "malformed" THEN [raised |-> TRUE, out |-> out]
    ELSE LET f == ZadFields(zad.obj)
         IN  IF f.raised THEN [raised |-> TRUE, out |-> out]
             ELSE [raised |-> FALSE, out |-> Update(out, f.value)]

\* step 2: json.loads and the dict literal run inside try/except Exception: pass,
\* and out.update runs only once the whole literal is built
ZadLayer(out, zad) ==
    IF zad.kind = "absent" THEN [raised |-> FALSE, out |-> out]
    ELSE IF zad.kind = "malformed" THEN [raised |-> FALSE, out |-> out]
    ELSE LET f == ZadFields(zad.obj)
         IN  [raised |-> FALSE, out |-> IF f.raised THEN out ELSE Update(out, f.value)]

\* step 3 with the offers price applied only when step 2 left no price
LdFieldsKeepFirstPrice(out, data) ==
    LET offers == Get(data, "offers")
        price == IF offers.t = "dict" THEN Get(offers.items, "price") ELSE PyNone
        out1 == IF Truthy(price) /\ ~Truthy(Get(out, "price"))
                THEN Put(out, "price", ToStr(price)) ELSE out
        name == Get(data, "name")
    IN  IF Truthy(name) THEN Put(out1, "title", name) ELSE out1

\* the body of the try of step 3, data being the parsed dict
LdFields(out, data) ==
    LET offers == Get(data, "offers")
        price == IF offers.t = "dict" THEN Get(offers.items, "price") ELSE PyNone
        out1 == IF Truthy(price) THEN Put(out, "price", ToStr(price)) ELSE out
        name == Get(data, "name")
    IN  IF Truthy(name) THEN Put(out1, "title", name) ELSE out1

\* step 3: the JSON-LD block, inside try/except Exception: pass
LdLayer(out, ld) ==
    IF ld.kind = "absent" THEN [raised |-> FALSE, out |-> out]
    ELSE IF ld.kind = "malformed" THEN [raised |-> FALSE, out |-> out]
    ELSE [raised |-> FALSE, out |-> LdFields(out, ld.obj)]

-----------------------------------------------------------------------------
(* fields_extractor.py: the visible-text rules                             *)
(*                                                                         *)
(* A text is given by what each pattern of the rules finds in it: a field  *)
(* holds PyNone when re.search finds no match and else the str of the      *)
(* captured group, exactly as matched (the patterns ignore case).          *)

_extract_status(text) == text.status

One(k, v) == [j \in {k} |-> v]

_extract_photos_and_floorplans(text) ==
    LET a == IF text.photos # PyNone THEN One("number_of_photos", text.photos)
             ELSE EmptyDict
    IN  IF text.floorplans # PyNone
        THEN Put(a, "number_of_floorplans", text.floorplans) ELSE a

_extract_epc_rating(text) ==
    IF text.epc # PyNone THEN Str(Upper(text.epc.s)) ELSE PyNone

_extract_address(text) ==
    IF text.address # PyNone THEN Str(Strip(text.address.s)) ELSE PyNone

_extract_bed_bath_recepts(text) ==
    LET a == IF text.beds # PyNone THEN One("bedrooms", text.beds) ELSE EmptyDict
        b == IF text.bath # PyNone THEN Put(a, "bathrooms", text.bath) ELSE a
    IN  IF text.receptions # PyNone THEN Put(b, "receptions", text.receptions) ELSE b

_extract_floor_area(text) ==
    IF text.floor_area # PyNone THEN _coerce_int(text.floor_area) ELSE PyNone

_extract_price_per_sqft(text) ==
    IF text.ppsf # PyNone THEN _coerce_int(text.ppsf) ELSE PyNone

_extract_tenure(text) ==
    IF text.tenure # PyNone THEN Str(Lower(text.tenure.s)) ELSE PyNone

\* "Logo of <name>" first, then a capitalised line standing before "Logo"
_extract_agent(text) ==
    IF text.agent_logo_of # PyNone THEN Str(Strip(text.agent_logo_of.s))
    ELSE IF text.agent_before_logo # PyNone THEN Str(Strip(text.agent_before_logo.s))
    ELSE PyNone

_extract_council_and_ground(text) ==
    LET a == IF text.council # PyNone
             THEN One("council_tax_band", Str(Upper(text.council.s))) ELSE EmptyDict
    IN  IF text.ground_rent # PyNone
        THEN Put(a, "ground_rent", Str(Pound(text.ground_rent.s))) ELSE a

\* name.strip().lower().replace(" ", "_")
RoomSlug(name) ==
    LET n == Lower(Strip(name))
    IN  [i \in DOMAIN n |-> IF n[i] = " " THEN "_" ELSE n[i]]

\* f"room_{key}_m" for the room names of the documents of this model
RoomKey(slug) ==
    CASE slug = <<"k", "i", "t", "c", "h", "e", "n">> -> "room_kitchen_m"
      [] slug = <<"l", "i", "v", "i", "n", "g", "_", "r", "o", "o", "m">> ->
            "room_living_room_m"
      [] OTHER -> "room_other_m"

\* text.rooms: the (name, w, h) triples of re.findall, in order; a later
\* room of the same key replaces an earlier one
RECURSIVE RoomsInto(_, _)
RoomsInto(out, rooms) ==
    IF rooms = <<>> THEN out
    ELSE LET r == Head(rooms)
         IN  RoomsInto(Put(out, RoomKey(RoomSlug(r[1])),
                           Str(r[2] \o <<"m", " ", "x", " ">> \o r[3] \o <<"m">>)),
                       Tail(rooms))

_extract_rooms(text) == RoomsInto(EmptyDict, text.rooms)

\* text.listed and text.sold: <<>> for no match, else <<date, price>>
_extract_timeline(text) ==
    LET a == IF text.listed # <<>>
             THEN Put(One("listed_date", Str(text.listed[1])),
                      "listed_price", Str(Pound(text.listed[2])))
             ELSE EmptyDict
    IN  IF text.sold # <<>>
        THEN Put(Put(a, "sold_date", Str(text.sold[1])),
                 "sold_price", Str(Pound(text.sold[2])))
        ELSE a

IsBlank(ln) == Strip(ln) = <<>>

RECURSIVE DropLeadingBlank(_)
DropLeadingBlank(lines) ==
    IF lines # <<>> /\ IsBlank(Head(lines)) THEN DropLeadingBlank(Tail(lines)) ELSE lines

RECURSIVE DropTrailingBlank(_)
DropTrailingBlank(lines) ==
    IF lines # <<>> /\ IsBlank(lines[Len(lines)])
    THEN DropTrailingBlank(SubSeq(lines, 1, Len(lines) - 1)) ELSE lines

\* the loop that keeps one empty line for each run of blank lines
RECURSIVE CollapseBlank(_, _)
CollapseBlank(lines, blank) ==
    IF lines = <<>> THEN <<>>
    ELSE IF ~IsBlank(Head(lines)) THEN <<Head(lines)>> \o CollapseBlank(Tail(lines), FALSE)
    ELSE IF ~blank THEN <<<<>>>> \o CollapseBlank(Tail(lines), TRUE)
    ELSE CollapseBlank(Tail(lines), TRUE)

\* text.about: found is FALSE when the marker is missing; lines are the lines
\* of the chunk between the marker and the first stop marker (chunk.splitlines())
_extract_about_property(text) ==
    IF ~text.about.found THEN EmptyDict
    ELSE LET lines == [i \in DOMAIN text.about.lines |-> RStrip(text.about.lines[i])]
             cleaned == CollapseBlank(DropTrailingBlank(DropLeadingBlank(lines)), FALSE)
             about_text == Strip(Join(cleaned, <<"\n">>))
         IN  IF about_text # <<>> THEN One("about_property", Str(about_text))
             ELSE EmptyDict

-----------------------------------------------------------------------------
(* fields_extractor.py: the arrays embedded in the document                *)

\* [s.strip().strip('"') for s in text.split(",") if s.strip().strip('"')],
\* the items being the pieces of the split
RECURSIVE StripQuotes(_)
StripQuotes(s) ==
    IF s # <<>> /\ Head(s) = "\"" THEN StripQuotes(Tail(s))
    ELSE IF s # <<>> /\ s[Len(s)] = "\"" THEN StripQuotes(SubSeq(s, 1, Len(s) - 1))
    ELSE s

CleanNames(items) ==
    LET cleaned == [i \in DOMAIN items |-> StripQuotes(Strip(items[i]))]
    IN  SelectSeq(cleaned, LAMBDA x : x # <<>>)

\* f"{float(d):.1f}" for the distances of this model: a whole number gains
\* ".0", a number with one decimal is unchanged, and anything float() refuses
\* is kept as it is (except ValueError)
FormatDistance(d) ==
    LET whole == DigitRun(d)
        after == SubSeq(d, Len(whole) + 1, Len(d))
    IN  IF whole # <<>> /\ after = <<>> THEN d \o <<".", "0">>
        ELSE d

\* doc.stations, doc.miles: found is FALSE when the pattern finds no array;
\* items are the pieces of group 1 split at the commas
_extract_nearest_stations(doc) ==
    LET stations == IF ~doc.stations.found THEN <<>> ELSE CleanNames(doc.stations.items)
        a == IF stations # <<>>
             THEN One("nearest_stations", Str(Join(stations, <<",", " ">>)))
             ELSE EmptyDict
        stripped == IF ~doc.miles.found THEN <<>>
                    ELSE SelectSeq([i \in DOMAIN doc.miles.items |->
                                        Strip(doc.miles.items[i])],
                                   LAMBDA x : x # <<>>)
        formatted == [i \in DOMAIN stripped |-> FormatDistance(stripped[i])]
    IN  IF stripped # <<>>
        THEN Put(a, "nearest_stations_distances", Str(Join(formatted, <<",", " ">>)))
        ELSE a

\* doc.schools as doc.stations; doc.school_phrase: which of the two marker
\* phrases the document contains ("good", "local", "none"), "good" first
_extract_schools(doc) ==
    LET schools == IF ~doc.schools.found THEN <<>> ELSE CleanNames(doc.schools.items)
    IN  IF schools # <<>> THEN One("nearest_schools", Str(Join(schools, <<",", " ">>)))
        ELSE IF doc.school_phrase = "good"
        THEN One("nearest_schools",
                 Str(<<"G", "o", "o", "d", " ", "a", "n", "d", " ", "O", "u", "t", "s",
                       "t", "a", "n", "d", "i", "n", "g", " ", "s", "c", "h", "o", "o",
                       "l", "s", " ", "i", "n", " ", "t", "h", "e", " ", "a", "r", "e",
                       "a">>))
        ELSE IF doc.school_phrase = "local"
        THEN One("nearest_schools",
                 Str(<<"L", "o", "c", "a", "l", " ", "s", "c", "h", "o", "o", "l", "s",
                       " ", "n", "e", "a", "r", "b", "y">>))
        ELSE EmptyDict

-----------------------------------------------------------------------------
(* fields_extractor.py: extract_from_html                                  *)

\* step 1: visible_text when it is a str with something besides whitespace;
\* else _textify(html), given by what the patterns find in it (doc.text)
BaseText(doc, vt) ==
    IF vt.given /\ ~vt.blank THEN vt.text ELSE doc.text

\* step 4, the rules in the order of the code; the station and school rules
\* read the document, the others the text
EnrichFromText(out0, doc, txt) ==
    LET status == _extract_status(txt)
        o1 == IF Truthy(status) THEN Put(out0, "status", status) ELSE out0
        o2 == Update(o1, _extract_photos_and_floorplans(txt))
        epc == _extract_epc_rating(txt)
        o3 == IF Truthy(epc)
              THEN SetDefault(Put(o2, "epc_rating", epc), "has_epc", Str(PyTrue.s))
              ELSE o2
        addr == _extract_address(txt)
        o4 == IF Truthy(addr) THEN Put(o3, "address", addr) ELSE o3
        o5 == Update(o4, _extract_bed_bath_recepts(txt))
        fa == _extract_floor_area(txt)
        o6 == IF Truthy(fa) THEN Put(o5, "size_sq_feet", ToStr(fa)) ELSE o5
        ppsf == _extract_price_per_sqft(txt)
        o7 == IF ppsf # PyNone THEN Put(o6, "price_per_sqft", ToStr(ppsf)) ELSE o6
        ten == _extract_tenure(txt)
        o8 == IF Truthy(ten) THEN Put(o7, "tenure", ten) ELSE o7
        ag == _extract_agent(txt)
        o9 == IF Truthy(ag) THEN Put(o8, "agent", ag) ELSE o8
        o10 == Update(o9, _extract_council_and_ground(txt))
        o11 == Update(o10, _extract_rooms(txt))
        o12 == Update(o11, _extract_nearest_stations(doc))
        o13 == Update(o12, _extract_schools(doc))
        o14 == Update(o13, _extract_timeline(txt))
    IN  Update(o14, _extract_about_property(txt))

\* the final clean-up with display_address written over any address
NormaliseDisplayAddressFirst(out0) ==
    LET o1 == IF "price" \in DOMAIN out0
              THEN Put(out0, "price", Or(_norm_money(out0["price"]), out0["price"]))
              ELSE out0
        o2 == IF "size_sq_feet" \in DOMAIN o1 /\ o1["size_sq_feet"].t = "str"
              THEN Put(o1, "size_sq_feet", Str(RemoveChar(o1["size_sq_feet"].s, ",")))
              ELSE o1
    IN  IF Truthy(Get(o2, "display_address"))
        THEN Put(o2, "address", o2["display_address"])
        ELSE o2

\* the final clean-up: price reduced to its number, commas taken out of
\* size_sq_feet, address filled from display_address
Normalise(out0) ==
    LET o1 == IF "price" \in DOMAIN out0
              THEN Put(out0, "price", Or(_norm_money(out0["price"]), out0["price"]))
              ELSE out0
        o2 == IF "size_sq_feet" \in DOMAIN o1 /\ o1["size_sq_feet"].t = "str"
              THEN Put(o1, "size_sq_feet", Str(RemoveChar(o1["size_sq_feet"].s, ",")))
              ELSE o1
    IN  IF "address" \notin DOMAIN o2 /\ Truthy(Get(o2, "display_address"))
        THEN Put(o2, "address", o2["display_address"])
        ELSE o2

\* v in (None, "", [], {})
IsEmptyValue(v) ==
    \/ v.t = "none"
    \/ v.t = "str" /\ v.s = <<>>
    \/ v.t = "list" /\ v.s = <<"[", "]">>
    \/ v.t = "dict" /\ v.s = <<"{", "}">>

\* the clean-up dropping None alone: if v is not None
RemoveEmptiesNoneOnly(out0) ==
    [k \in {j \in DOMAIN out0 : out0[j].t # "none"} |-> out0[k]]

\* {k: v for k, v in out.items() if v not in (None, "", [], {})}
RemoveEmpties(out0) ==
    [k \in {j \in DOMAIN out0 : ~IsEmptyValue(out0[j])} |-> out0[k]]

\* the record as it stands after each step
AfterZad(doc) == ZadLayer(EmptyDict, doc.zad)
AfterLd(doc) == LdLayer(AfterZad(doc).out, doc.ld)
AfterText(doc, vt) == EnrichFromText(AfterLd(doc).out, doc, BaseText(doc, vt))

\* extract_from_html(html, visible_text): [raised, value], raised when an
\* exception leaves the function
extract_from_html(doc, vt) ==
    IF AfterZad(doc).raised \/ AfterLd(doc).raised
    THEN [raised |-> TRUE, value |-> EmptyDict]
    ELSE [raised |-> FALSE, value |-> RemoveEmpties(Normalise(AfterText(doc, vt)))]

-----------------------------------------------------------------------------
(* The documents of the model                                              *)

JsonObject(fields) == [kind |-> "object", obj |-> fields]
BlockAbsent == [kind |-> "absent", obj |-> EmptyDict]
BlockMalformed == [kind |-> "malformed", obj |-> EmptyDict]

\* a JSON object from the pairs whose value is given (Absent leaves the key out)
Absent == [t |-> "absent", s |-> <<>>]
Obj(pairs) ==
    [k \in {pairs[i][1] : i \in {j \in DOMAIN pairs : pairs[j][2] # Absent}} |->
        pairs[CHOOSE i \in DOMAIN pairs : pairs[i][1] = k][2]]

\* ad-targeting blocks: the fields the layers compete for vary, the rest is fixed
ZadListing ==
    {Obj(<<<<"listing_id", PyInt(123)>>, <<"price_actual", price>>,
           <<"property_type", Str(<<" ", "F", "l", "a", "t">>)>>, <<"tenure", Str(<<"L", "e", "a", "s", "e", "h", "o", "l", "d">>)>>,
           <<"num_beds", beds>>, <<"num_baths", PyInt(1)>>,
           <<"has_epc", epc>>, <<"has_floorplan", PyFalse>>,
           <<"size_sq_feet", Str(<<"1", ",", "0", "5", "0">>)>>, <<"display_address", da>>,
           <<"outcode", Str(<<"S", "W", "1">>)>>, <<"brand_name", Str(<<"A", "c", "m", "e", " ", "E", "s", "t", "a", "t", "e", "s">>)>> >>) :
        price \in {Absent, PyInt(450000), Str(<<"P", "O", "A">>)},
        beds \in {Absent, PyInt(4)},
        epc \in {Absent, PyTrue, PyFalse},
        da \in {Absent, Str(<<"1", " ", "H", "i", "g", "h", " ", "S", "t">>)}}

\* ad-targeting blocks whose fields have types the code does not expect
ZadOdd ==
    {Obj(<<<<"price", Str(<<"£", "4", "5", "0", ",", "0", "0", "0">>)>>, <<"property_type", ptype>>, <<"tenure", ten>>,
           <<"num_beds", PyInt(0)>>, <<"has_epc", PyNone>>,
           <<"display_address", PyList(<<"[", "'", "a", "'", "]">>)>>, <<"chain_free", Str(<<"y", "e", "s">>)>> >>) :
        ptype \in {Absent, Str(<<" ", "F", "l", "a", "t">>), PyInt(5)},
        ten \in {Absent, Str(<<" ", "S", "h", "a", "r", "e", " ", "o", "f", " ", "F", "r", "e", "e",
      "h", "o", "l", "d", " ">>), PyNone, PyList(<<"[", "'", "a", "'", "]">>)}}

ZadBlocks == {BlockAbsent, BlockMalformed} \cup {JsonObject(o) : o \in ZadListing \cup ZadOdd}

Offers(price) == PyDict(Obj(<<<<"price", price>>, <<"priceCurrency", Str(<<"G", "B", "P">>)>> >>))

LdBlocks ==
    {BlockAbsent, BlockMalformed,
     JsonObject(Obj(<<<<"name", Str(<<"2", " ", "b", "e", "d", " ", "f", "l", "a", "t", " ", "f", "o", "r",
      " ", "s", "a", "l", "e">>)>> >>)),
     JsonObject(Obj(<<<<"offers", Str(<<"x">>)>>, <<"name", EmptyStr>> >>)),
     JsonObject(Obj(<<<<"offers", PyDict(EmptyDict)>> >>))}
    \cup {JsonObject(Obj(<<<<"offers", Offers(p)>>, <<"name", Str(<<"2", " ", "b", "e", "d", " ", "f", "l", "a", "t", " ", "f", "o", "r",
      " ", "s", "a", "l", "e">>)>> >>)) :
            p \in {Absent, EmptyStr, Str(<<"4", "6", "0", "0", "0", "0">>), Str(<<"£", "4", "6", "0", ",", "0", "0", "0", ".", "5", "0">>), PyInt(460000)}}

NoArray == [found |-> FALSE, items |-> <<>>]
Array(items) == [found |-> TRUE, items |-> items]

PlainText ==
    [status |-> PyNone, photos |-> PyNone, floorplans |-> PyNone, epc |-> PyNone,
     address |-> PyNone, beds |-> PyNone, bath |-> PyNone, receptions |-> PyNone,
     floor_area |-> PyNone, ppsf |-> PyNone, tenure |-> PyNone,
     agent_logo_of |-> PyNone, agent_before_logo |-> PyNone, council |-> PyNone,
     ground_rent |-> PyNone, rooms |-> <<>>, listed |-> <<>>, sold |-> <<>>,
     about |-> [found |-> FALSE, lines |-> <<>>]]

RichText ==
    [status |-> Str(<<"J", "u", "s", "t", " ", "a", "d", "d", "e", "d">>), photos |-> Str(<<"1", "2">>), floorplans |-> Str(<<"1">>), epc |-> PyNone,
     address |-> PyNone, beds |-> PyNone, bath |-> Str(<<"2">>), receptions |-> Str(<<"1">>),
     floor_area |-> Str(<<"1", ",", "2", "0", "0">>), ppsf |-> Str(<<"0">>), tenure |-> PyNone,
     agent_logo_of |-> Str(<<"A", "c", "m", "e", " ", "&", " ", "C", "o", " ">>), agent_before_logo |-> PyNone, council |-> Str(<<"d">>),
     ground_rent |-> Str(<<"2", "5", "0">>),
     rooms |-> << <<<<"K", "i", "t", "c", "h", "e", "n", " ">>, <<"3", ".", "2", "0">>, <<"2", ".", "5", "0">>>>, <<<<" ", "L", "i", "v", "i", "n", "g", " ", "r", "o", "o", "m", " ">>, <<"4", ".", "1", "0">>, <<"2", ".", "5", "0">>>> >>,
     listed |-> <<<<"M", "a", "r", "c", "h", " ", "2", "0", "2", "4">>, <<"4", "5", "0", ",", "0", "0", "0">>>>, sold |-> <<>>,
     about |-> [found |-> TRUE,
                lines |-> <<<<" ", " ">>, <<"B", "r", "i", "g", "h", "t", " ", "f", "l", "a", "t", " ", " ">>, <<>>, <<" ", " ">>, <<"G", "a", "r", "d", "e", "n">>, <<>> >>]]

\* a text whose every rule finds nothing usable: a floor area of zero, an
\* address and an agent of spaces, an "About this property" of blank lines
HollowText ==
    [PlainText EXCEPT !.floor_area = Str(<<"0", "0", "0">>), !.address = Str(<<" ", " ">>),
                      !.agent_logo_of = Str(<<" ", " ">>),
                      !.about = [found |-> TRUE, lines |-> <<<<" ", " ">>, <<>> >>]]

Texts ==
    {[base EXCEPT !.beds = beds, !.epc = epc, !.address = addr, !.tenure = ten] :
        base \in {PlainText, RichText},
        beds \in {PyNone, Str(<<"3">>)},
        epc \in {PyNone, Str(<<"c">>)},
        addr \in {PyNone, Str(<<"1", "2", " ", "E", "l", "m", " ", "S", "t", "r", "e", "e", "t", " ">>)},
        ten \in {PyNone, Str(<<"F", "R", "E", "E", "H", "O", "L", "D">>)}}
    \cup {HollowText}

\* the arrays of a document that goes with a text: a rich text comes with
\* station and school arrays, a plain text with the "local schools" phrase
Amenities(text) ==
    IF text.status # PyNone
    THEN [stations |-> Array(<<<<" ", "\"", "O", "v", "a", "l", "\"">>, <<"\"", "K", "e", "n", "n", "i", "n", "g", "t", "o", "n", "\"", " ">>, <<" ", "\"", "\"", " ">>>>), miles |-> Array(<<<<" ", "0", ".", "3">>, <<"1">>, <<"n", "/", "a">>>>),
          schools |-> Array(<<<<"\"", "O", "v", "a", "l", " ", "P", "r", "i", "m", "a", "r", "y", "\"">>>>), school_phrase |-> "good"]
    ELSE IF text.beds # PyNone
    THEN [stations |-> Array(<<<<" ", "\"", "\"", " ">>>>), miles |-> NoArray,
          schools |-> Array(<<<<" ", "\"", "\"", " ">>>>), school_phrase |-> "local"]
    ELSE [stations |-> NoArray, miles |-> NoArray,
          schools |-> NoArray, school_phrase |-> "none"]

Documents ==
    {[zad |-> z, ld |-> l, text |-> t,
      stations |-> Amenities(t).stations, miles |-> Amenities(t).miles,
      schools |-> Amenities(t).schools, school_phrase |-> Amenities(t).school_phrase] :
        z \in ZadBlocks, l \in LdBlocks, t \in Texts}

\* visible_text: not passed (None), passed blank, or passed with a text
VisibleTexts ==
    {[given |-> FALSE, blank |-> FALSE, text |-> PlainText],
     [given |-> TRUE, blank |-> TRUE, text |-> PlainText],
     [given |-> TRUE, blank |-> FALSE,
      text |-> [PlainText EXCEPT !.beds = Str(<<"2">>), !.epc = Str(<<"B">>), !.bath = Str(<<"1">>)]]}

-----------------------------------------------------------------------------
(* uk_police_api.py: the month keys                                        *)

NumMonths == 6

RECURSIVE ZeroPad(_, _)
ZeroPad(digits, width) ==
    IF Len(digits) >= width THEN digits ELSE ZeroPad(<<"0">> \o digits, width)

\* f"{year:04d}-{month:02d}"
MonthKey(year, month) ==
    ZeroPad(IntToDigits(year), 4) \o <<"-">> \o ZeroPad(IntToDigits(month), 2)

\* the roll-back with the year left as it is
RollBackSameYear(year, month) ==
    IF month <= 0 THEN <<year, month + 12>> ELSE <<year, month>>

\* while month <= 0: month += 12; year -= 1
RECURSIVE RollBack(_, _)
RollBack(year, month) ==
    IF month <= 0 THEN RollBack(year - 1, month + 12) ELSE <<year, month>>

\* today is datetime.date.today() as <<year, month>>
generate_recent_months(num_months) ==
    [n \in 1..num_months |->
        LET ym == RollBack(today[1], today[2] - (n - 1))
        IN  MonthKey(ym[1], ym[2])]

\* ord(c) for the characters of a month key
Ord(c) == IF c = "-" THEN 45 ELSE 48 + DigitValue(c)

\* a < b for two strings
RECURSIVE StrLess(_, _)
StrLess(a, b) ==
    IF b = <<>> THEN FALSE
    ELSE IF a = <<>> THEN TRUE
    ELSE IF Head(a) # Head(b) THEN Ord(Head(a)) < Ord(Head(b))
    ELSE StrLess(Tail(a), Tail(b))

\* sorted(keys)
RECURSIVE Sorted(_)
Sorted(keys) ==
    IF keys = {} THEN <<>>
    ELSE LET least == CHOOSE k \in keys : \A j \in keys : j = k \/ StrLess(k, j)
         IN  <<least>> \o Sorted(keys \ {least})

-----------------------------------------------------------------------------
(* uk_police_api.py: fetch_month_crimes and aggregate_6month_crime         *)

\* an incident as the service returns it; a part that can be missing or null is
\* "absent", "null" or "object"; a name that is missing is "" and a name that
\* is null is "null"; the None that Python reads a null as is "None"
Incident(category, street, outcome) ==
    [category |-> category,
     location |-> "object", street |-> "object", street_name |-> street,
     outcome_status |-> IF outcome = "" THEN "null" ELSE "object",
     outcome_category |-> outcome]

IncidentKinds ==
    <<Incident("burglary", "On or near High Street", "Under investigation"),
      Incident("anti-social-behaviour", "On or near High Street", ""),
      Incident("burglary", "On or near Park Road", ""),
      Incident("vehicle-crime", "On or near Mill Lane", "Under investigation"),
      Incident("anti-social-behaviour", "On or near Park Road", ""),
      Incident("drugs", "On or near Elm Row", ""),
      Incident("vehicle-crime", "On or near Kiln Yard", "Under investigation")>>

\* incidents with a part missing or null
Sparse(location, street, street_name) ==
    [Incident("burglary", street_name, "Under investigation")
        EXCEPT !.location = location, !.street = street]

SparseKinds ==
    {Sparse("absent", "absent", ""), Sparse("null", "absent", ""),
     Sparse("object", "absent", ""), Sparse("object", "null", ""),
     Sparse("object", "object", ""), Sparse("object", "object", "null"),
     Incident("", "On or near High Street", "Under investigation"),
     Incident("null", "On or near High Street", "Under investigation"),
     [Incident("burglary", "On or near High Street", "") EXCEPT !.outcome_status = "absent"],
     [Incident("burglary", "On or near High Street", "") EXCEPT !.outcome_status = "object"],
     [Incident("burglary", "On or near High Street", "null") EXCEPT !.outcome_status = "object"]}

\* incidents of five streets and four categories
StreetKinds ==
    {Incident("burglary", "On or near High Street", "Under investigation"),
     Incident("anti-social-behaviour", "On or near Park Road", ""),
     Incident("vehicle-crime", "On or near Mill Lane", "Under investigation"),
     Incident("drugs", "On or near Elm Row", ""),
     Incident("burglary", "On or near Kiln Yard", "")}

\* the JSON list of n incidents that one month's request answers with
IncidentList(n) ==
    [i \in 1..n |-> IncidentKinds[((i - 1) % Len(IncidentKinds)) + 1]]

\* the largest answer of the model
MaxCount == 10

\* what requests.get can end in: an exception (network error, timeout), a
\* non-success status, a body that is no JSON, a JSON null, or a JSON list
Responses ==
    {[kind |-> k, json |-> <<>>] : k \in {"exception", "bad status", "bad body", "null"}}
    \cup {[kind |-> "list", json |-> IncidentList(n)] : n \in {0, 2, 3, 7, MaxCount}}

\* fetch_month_crimes: one requests.get; resp.json() or [], and [] whenever
\* the try raises
fetch_month_crimes(response) ==
    IF response.kind = "list" THEN response.json ELSE <<>>

\* dict.get(key, default) on a name: the default only when the key is missing
GetName(name, default) ==
    IF name = "" THEN default ELSE IF name = "null" THEN "None" ELSE name

\* c.get("category", "unknown")
CategoryOf(c) == GetName(c.category, "unknown")

\* (c.get("location", {}) or {}).get("street", {}).get("name", "Unknown"):
\* a street that is null has no get
StreetRaises(c) == c.location = "object" /\ c.street = "null"

StreetOf(c) ==
    IF c.location # "object" \/ c.street # "object"
    THEN "Unknown" ELSE GetName(c.street_name, "Unknown")

\* (c.get("outcome_status") or {}).get("category", "Not provided")
OutcomeOf(c) ==
    IF c.outcome_status # "object"
    THEN "Not provided" ELSE GetName(c.outcome_category, "Not provided")

RECURSIVE CountOnce(_)
\* a tally that holds each name once, whatever the number of its incidents
CountOnce(names) ==
    IF names = <<>> THEN <<>>
    ELSE LET front == SubSeq(names, 1, Len(names) - 1)
             last == names[Len(names)]
             c == CountOnce(front)
         IN  IF \E i \in DOMAIN c : c[i][1] = last THEN c
             ELSE Append(c, <<last, 1>>)

\* Counter(names): <<name, count>> pairs in the order the names first appear
RECURSIVE Counter(_)
Counter(names) ==
    IF names = <<>> THEN <<>>
    ELSE LET front == SubSeq(names, 1, Len(names) - 1)
             last == names[Len(names)]
             c == Counter(front)
         IN  IF \E i \in DOMAIN c : c[i][1] = last
             THEN [i \in DOMAIN c |-> IF c[i][1] = last THEN <<last, c[i][2] + 1>> ELSE c[i]]
             ELSE Append(c, <<last, 1>>)

\* Counter.most_common(): highest count first, equal counts in first-seen order
RECURSIVE MostCommon(_)
MostCommon(counter) ==
    IF counter = <<>> THEN <<>>
    ELSE LET top == CHOOSE i \in DOMAIN counter :
                        /\ \A j \in DOMAIN counter : counter[j][2] <= counter[i][2]
                        /\ \A j \in 1..(i - 1) : counter[j][2] < counter[i][2]
         IN  <<counter[top]>> \o
             MostCommon([i \in 1..(Len(counter) - 1) |->
                            IF i < top THEN counter[i] ELSE counter[i + 1]])

\* the first n names of a Counter in the order they were first seen
FirstSeenN(counter, n) ==
    SubSeq(counter, 1, IF Len(counter) < n THEN Len(counter) ELSE n)

\* Counter.most_common(n)
MostCommonN(counter, n) ==
    LET all == MostCommon(counter)
    IN  SubSeq(all, 1, IF Len(all) < n THEN Len(all) ELSE n)

RECURSIVE SumCounts(_, _)
SumCounts(counts, keys) ==
    IF keys = <<>> THEN 0 ELSE counts[Head(keys)] + SumCounts(counts, Tail(keys))

\* sorted_months[-3:]
Last3Keys(sorted_months) ==
    SubSeq(sorted_months, Len(sorted_months) - 2, Len(sorted_months))

\* sorted_months[-6:-3]
Prev3Keys(sorted_months) ==
    SubSeq(sorted_months, Len(sorted_months) - 5, Len(sorted_months) - 3)

Last3(counts) ==
    LET sorted_months == Sorted(DOMAIN counts)
    IN  IF Len(sorted_months) >= 3 THEN SumCounts(counts, Last3Keys(sorted_months)) ELSE 0

Prev3(counts) ==
    LET sorted_months == Sorted(DOMAIN counts)
    IN  IF Len(sorted_months) >= 6 THEN SumCounts(counts, Prev3Keys(sorted_months)) ELSE 0

\* the thresholds taken inclusive: change >= 0.15, change <= -0.15
TrendInclusive(last3, prev3) ==
    IF prev3 > 0
    THEN IF 20 * (last3 - prev3) >= 3 * prev3 THEN "rising"
         ELSE IF 20 * (last3 - prev3) <= -3 * prev3 THEN "falling"
         ELSE "stable"
    ELSE "stable"

\* no guard on prev3: any incidents after an empty baseline count as a rise
TrendNoBaseline(last3, prev3) ==
    IF prev3 > 0
    THEN IF 20 * (last3 - prev3) > 3 * prev3 THEN "rising"
         ELSE IF 20 * (last3 - prev3) < -3 * prev3 THEN "falling"
         ELSE "stable"
    ELSE IF last3 > 0 THEN "rising" ELSE "stable"

\* change = (last3 - prev3) / prev3 compared with 0.15 and -0.15.  The quotient
\* of two ints is the double nearest to the exact ratio and 0.15 is the double
\* nearest to 3/20, so for counts of this size change > 0.15 exactly when
\* 20 * (last3 - prev3) > 3 * prev3, and likewise for change < -0.15.
Trend(last3, prev3) ==
    IF prev3 > 0
    THEN IF 20 * (last3 - prev3) > 3 * prev3 THEN "rising"
         ELSE IF 20 * (last3 - prev3) < -3 * prev3 THEN "falling"
         ELSE "stable"
    ELSE "stable"

\* lines 40 to 80: the tallies, the trend and the returned dict
Aggregate(crimes, counts) ==
    [total |-> Len(crimes),
     by_category |-> MostCommon(Counter([i \in DOMAIN crimes |-> CategoryOf(crimes[i])])),
     top_streets |-> MostCommonN(Counter([i \in DOMAIN crimes |-> StreetOf(crimes[i])]), 3),
     outcomes |-> MostCommon(Counter([i \in DOMAIN crimes |-> OutcomeOf(crimes[i])])),
     monthly_counts |-> counts,
     trend |-> Trend(Last3(counts), Prev3(counts))]

\* monthly counts of n incidents, newest of them in the newest month and the
\* others in the oldest
SplitCounts(n, newest) ==
    [k \in {MonthKey(2025, m) : m \in 3..8} |->
        IF k = MonthKey(2025, 8) THEN newest
        ELSE IF k = MonthKey(2025, 3) THEN n - newest
        ELSE 0]

-----------------------------------------------------------------------------
(* uk_police_api.build_accurate_summary                                    *)

\* the characters of the names the incidents of the model carry, and of the
\* three trend words
Spell(name) ==
    CASE name = "burglary" ->
        <<"b", "u", "r", "g", "l", "a", "r", "y">>
      [] name = "anti-social-behaviour" ->
        <<"a", "n", "t", "i", "-", "s", "o", "c", "i", "a", "l", "-", "b",
        "e", "h", "a", "v", "i", "o", "u", "r">>
      [] name = "vehicle-crime" ->
        <<"v", "e", "h", "i", "c", "l", "e", "-", "c", "r", "i", "m", "e">>
      [] name = "drugs" ->
        <<"d", "r", "u", "g", "s">>
      [] name = "unknown" ->
        <<"u", "n", "k", "n", "o", "w", "n">>
      [] name = "On or near High Street" ->
        <<"O", "n", " ", "o", "r", " ", "n", "e", "a", "r", " ", "H", "i",
        "g", "h", " ", "S", "t", "r", "e", "e", "t">>
      [] name = "On or near Park Road" ->
        <<"O", "n", " ", "o", "r", " ", "n", "e", "a", "r", " ", "P", "a",
        "r", "k", " ", "R", "o", "a", "d">>
      [] name = "On or near Mill Lane" ->
        <<"O", "n", " ", "o", "r", " ", "n", "e", "a", "r", " ", "M", "i",
        "l", "l", " ", "L", "a", "n", "e">>
      [] name = "On or near Elm Row" ->
        <<"O", "n", " ", "o", "r", " ", "n", "e", "a", "r", " ", "E", "l",
        "m", " ", "R", "o", "w">>
      [] name = "On or near Kiln Yard" ->
        <<"O", "n", " ", "o", "r", " ", "n", "e", "a", "r", " ", "K", "i",
        "l", "n", " ", "Y", "a", "r", "d">>
      [] name = "Unknown" ->
        <<"U", "n", "k", "n", "o", "w", "n">>
      [] name = "rising" ->
        <<"r", "i", "s", "i", "n", "g">>
      [] name = "falling" ->
        <<"f", "a", "l", "l", "i", "n", "g">>
      [] name = "stable" ->
        <<"s", "t", "a", "b", "l", "e">>

IsCased(c) == LowerChar(c) # c \/ UpperChar(c) # c

\* str.title(): a cased character is upper-cased after an uncased one (or at
\* the start) and lower-cased after a cased one
Title(s) ==
    [i \in DOMAIN s |->
        IF i = 1 THEN UpperChar(s[i])
        ELSE IF IsCased(s[i - 1]) THEN LowerChar(s[i]) ELSE UpperChar(s[i])]

\* str.replace(a, b) for single characters
ReplaceChar(s, a, b) == [i \in DOMAIN s |-> IF s[i] = a THEN b ELSE s[i]]

prettify_category(cat) == Title(ReplaceChar(cat, "-", " "))

\* list(d.keys()) of a tally held as <<name, count>> pairs
Keys(pairs) == [i \in DOMAIN pairs |-> pairs[i][1]]

\* seq[:n]
FirstN(seq, n) == SubSeq(seq, 1, IF Len(seq) < n THEN Len(seq) ELSE n)

\* the fixed text of the f-strings of lines 92 to 115
Literal(part) ==
    CASE part = "no categories" ->
        <<"N", "o", " ", "m", "a", "j", "o", "r", " ", "c", "a", "t", "e",
        "g", "o", "r", "i", "e", "s">>
      [] part = "near" -> <<" ", "(", "n", "e", "a", "r", " ">>
      [] part = "safe" ->
        <<":", " ", "S", "a", "f", "e", " ", "a", "r", "e", "a", " ", "-",
        " ", "n", "o", " ", "c", "r", "i", "m", "e", "s", " ", "r", "e",
        "p", "o", "r", "t", "e", "d", " ", "w", "i", "t", "h", "i", "n", " ">>
      [] part = "past" ->
        <<"k", "m", " ", "r", "a", "d", "i", "u", "s", " ", "i", "n", " ",
        "p", "a", "s", "t", " ", "6", " ", "m", "o", "n", "t", "h", "s">>
      [] part = "low" -> <<":", " ", "L", "o", "w", " ", "c", "r", "i", "m", "e", " ", "-",
        " ">>
      [] part = "moderate" ->
        <<":", " ", "M", "o", "d", "e", "r", "a", "t", "e", " ", "c", "r",
        "i", "m", "e", " ", "-", " ">>
      [] part = "high" ->
        <<":", " ", "H", "i", "g", "h", " ", "c", "r", "i", "m", "e", " ",
        "a", "r", "e", "a", " ", "-", " ">>
      [] part = "incidents" ->
        <<" ", "i", "n", "c", "i", "d", "e", "n", "t", "s", " ", "w", "i",
        "t", "h", "i", "n", " ">>
      [] part = "radius" -> <<"k", "m", " ", "r", "a", "d", "i", "u", "s">>
      [] part = "mainly" -> <<",", " ", "m", "a", "i", "n", "l", "y", " ">>
      [] part = "trend" -> <<" ", "t", "r", "e", "n", "d", ")">>

\* f"{radius_km}" of the default radius_km = 1.0
DefaultRadius == <<"1", ".", "0">>

\* top_two with one category only
TopOne(cats) ==
    IF cats # <<>>
    THEN Join([i \in DOMAIN FirstN(cats, 1) |-> prettify_category(Spell(cats[i]))],
              <<",", " ">>)
    ELSE Literal("no categories")

\* lines 92 to 96
TopTwo(cats) ==
    IF cats # <<>>
    THEN Join([i \in DOMAIN FirstN(cats, 2) |-> prettify_category(Spell(cats[i]))],
              <<",", " ">>)
    ELSE Literal("no categories")

\* lines 100 to 104
StreetContext(top_streets, total) ==
    IF top_streets # <<>> /\ total > 0
    THEN Literal("near") \o
         Join([i \in DOMAIN top_streets |-> Spell(top_streets[i])], <<",", " ">>) \o
         <<")">>
    ELSE <<>>

\* the bands with the upper limits left out of them
BandExclusive(total) ==
    IF total = 0 THEN "safe"
    ELSE IF total < 5 THEN "low"
    ELSE IF total < 20 THEN "moderate"
    ELSE "high"

\* the if/elif chain of lines 107 to 115
Band(total) ==
    IF total = 0 THEN "safe"
    ELSE IF total <= 5 THEN "low"
    ELSE IF total <= 20 THEN "moderate"
    ELSE "high"

\* the traffic light that opens the sentence: one character of the source,
\* held here under its Unicode name
Light(band) ==
    CASE band \in {"safe", "low"} -> "LARGE GREEN CIRCLE"
      [] band = "moderate" -> "LARGE YELLOW CIRCLE"
      [] band = "high" -> "LARGE RED CIRCLE"

\* address is a string, postcode a value (None or a string), aggregate the
\* agg dict of aggregate_6month_crime, radius_km the text of the radius
build_accurate_summary(address, postcode, aggregate, radius_km) ==
    LET total == aggregate.total
        trend == aggregate.trend
        cats == Keys(aggregate.by_category)
        top_two == TopTwo(cats)
        pcode == IF Truthy(postcode) THEN <<" ", "(">> \o postcode.s \o <<")">> ELSE <<>>
        top_streets == FirstN(Keys(aggregate.top_streets), 2)
        street_context == StreetContext(top_streets, total)
        band == Band(total)
        head == <<Light(band), " ">> \o address \o pcode
    IN  IF band = "safe"
        THEN head \o Literal("safe") \o radius_km \o Literal("past")
        ELSE head \o Literal(band) \o IntToDigits(total) \o Literal("incidents") \o
             radius_km \o Literal("radius") \o street_context \o Literal("mainly") \o
             top_two \o <<" ", "(">> \o Spell(trend) \o Literal("trend")

-----------------------------------------------------------------------------
(* real_estate_data_pipeline.run_crime_data_step: the merge                *)

\* A coordinate value of a JSON record: None (or no such key), a number in
\* millionths of a degree, or a string that float() rejects.
NoCoord == [t |-> "none", v |-> 0]
Deg(v) == [t |-> "float", v |-> v]
BadCoord == [t |-> "str", v |-> 0]

\* bool(v) of a coordinate value
CoordTruthy(c) == c.t = "str" \/ (c.t = "float" /\ c.v # 0)

\* a or b
CoordOr(a, b) == IF CoordTruthy(a) THEN a ELSE b

\* round(x, 4)
Round4(v) == ((v + 50) \div 100) * 100

\* round(x, 5) of a number of millionths: the nearest multiple of ten
\* millionths (the numbers of the model end in no 5, so that none is a tie)
Round5(v) == ((v + 5) \div 10) * 10

\* round_coord with float(v or 0) for its argument
round_coord_or_zero(v) ==
    IF v.t = "float" THEN Deg(Round5(v.v))
    ELSE IF v.t = "none" THEN Deg(0)
    ELSE NoCoord

\* lines 282 to 288: None for None and for what float() rejects
round_coord(v) == IF v.t = "float" THEN Deg(Round5(v.v)) ELSE NoCoord

\* lines 292 to 294
RoundedPair(prop) ==
    <<round_coord(CoordOr(prop.lat, prop.latitude)),
      round_coord(CoordOr(prop.lon, prop.longitude))>>

Max(S) == CHOOSE x \in S : \A y \in S : y <= x

\* lines 290 to 296: the loop leaves under each pair the last index with it
BuildByCoords(recs) ==
    LET Indexed == {i \in DOMAIN recs :
                        /\ RoundedPair(recs[i])[1].t = "float"
                        /\ RoundedPair(recs[i])[2].t = "float"}
        Key(i) == <<RoundedPair(recs[i])[1].v, RoundedPair(recs[i])[2].v>>
    IN  [k \in {Key(i) : i \in Indexed} |-> Max({i \in Indexed : Key(i) = k})]

\* (a or b or "").strip().lower()
NormAddr(a, b) == Lower(Strip(Or(a, Or(b, EmptyStr)).s))

\* lines 298 to 306
BuildByAddr(recs) ==
    LET Addr(i) == NormAddr(recs[i].address_full, recs[i].address)
        Indexed == {i \in DOMAIN recs : Addr(i) # <<>>}
    IN  [k \in {Addr(i) : i \in Indexed} |-> Max({i \in Indexed : Addr(i) = k})]

\* the two lookups in the other order: the address index first
MatchTargetAddressFirst(c, coords_index, addr_index) ==
    LET clat == round_coord(c.lat)
        clng == round_coord(c.lng)
        caddr == NormAddr(c.address, EmptyStr)
        by_a == IF caddr # <<>> /\ caddr \in DOMAIN addr_index
                THEN addr_index[caddr] ELSE 0
        tried == by_a = 0 /\ clat.t = "float" /\ clng.t = "float"
        by_c == IF tried /\ <<clat.v, clng.v>> \in DOMAIN coords_index
                THEN coords_index[<<clat.v, clng.v>>] ELSE 0
    IN  [coords_tried |-> tried, coords_target |-> by_c,
         addr_consulted |-> caddr # <<>>, target |-> IF by_a # 0 THEN by_a ELSE by_c]

\* lines 310 to 318: which record a summary resolves to (0 for none), and
\* which of the two indexes were looked up
MatchTarget(c, coords_index, addr_index) ==
    LET clat == round_coord(c.lat)
        clng == round_coord(c.lng)
        tried == clat.t = "float" /\ clng.t = "float"
        by_c == IF tried /\ <<clat.v, clng.v>> \in DOMAIN coords_index
                THEN coords_index[<<clat.v, clng.v>>] ELSE 0
        caddr == NormAddr(c.address, EmptyStr)
        consulted == by_c = 0 /\ caddr # <<>>
        by_a == IF consulted /\ caddr \in DOMAIN addr_index
                THEN addr_index[caddr] ELSE 0
    IN  [coords_tried |-> tried, coords_target |-> by_c,
         addr_consulted |-> consulted, target |-> IF by_c # 0 THEN by_c ELSE by_a]

\* the summary written to every record that shares the target's rounded pair
\* or its address
ApplyToAllSharing(recs, target, c) ==
    [i \in DOMAIN recs |->
        IF \/ i = target
           \/ /\ RoundedPair(recs[i]) = RoundedPair(recs[target])
              /\ RoundedPair(recs[i])[1].t = "float"
              /\ RoundedPair(recs[i])[2].t = "float"
           \/ /\ NormAddr(recs[i].address_full, recs[i].address) =
                 NormAddr(recs[target].address_full, recs[target].address)
              /\ NormAddr(recs[i].address_full, recs[i].address) # <<>>
        THEN [recs[i] EXCEPT !.crime_summary = c.summary, !.crime_data = c.aggregate]
        ELSE recs[i]]

\* the embedding with the summary's address copied into the record as well
ApplySummaryWithAddress(recs, target, c) ==
    [recs EXCEPT ![target].crime_summary = c.summary,
                 ![target].crime_data = c.aggregate,
                 ![target].address = c.address]

\* lines 320 to 322
ApplySummary(recs, target, c) ==
    [recs EXCEPT ![target].crime_summary = c.summary,
                 ![target].crime_data = c.aggregate]

\* a scraped record: the keys the step reads, and the two it writes ("absent"
\* while the record has no such key)
Scraped(lat, latitude, lon, longitude, address_full, address) ==
    [lat |-> lat, latitude |-> latitude, lon |-> lon, longitude |-> longitude,
     address_full |-> address_full, address |-> address,
     crime_summary |-> "absent", crime_data |-> "absent"]

HighSt == Str(<<"1", " ", "H", "i", "g", "h", " ", "S", "t">>)
HighStLoose == Str(<<" ", "1", " ", "h", "i", "g", "h", " ", "s", "t", " ">>)
ParkRd == Str(<<"2", " ", "P", "a", "r", "k", " ", "R", "d">>)
MillLn == Str(<<"3", " ", "M", "i", "l", "l", " ", "L", "n">>)
MillLnLoose == Str(<<" ", " ", "3", " ", "M", "I", "L", "L", " ", "L", "N",
                   " ">>)
Nowhere == Str(<<"N", "o", "w", "h", "e", "r", "e">>)
Blank == Str(<<" ">>)

ScrapedKinds ==
    {Scraped(Deg(51500000), NoCoord, Deg(-100000), NoCoord, HighSt, PyNone),
     Scraped(Deg(51600000), NoCoord, Deg(-200000), NoCoord, PyNone, ParkRd),
     Scraped(NoCoord, Deg(51500004), Deg(0), Deg(-100004), EmptyStr, HighStLoose),
     Scraped(NoCoord, NoCoord, NoCoord, NoCoord, MillLn, PyNone),
     Scraped(NoCoord, NoCoord, NoCoord, NoCoord, PyNone, PyNone),
     Scraped(Deg(0), NoCoord, BadCoord, NoCoord, Blank, EmptyStr),
     Scraped(Deg(0), Deg(0), Deg(-200000), Deg(-200000), PyNone, ParkRd)}

Summary(lat, lng, address, name) ==
    [lat |-> lat, lng |-> lng, address |-> address,
     summary |-> name, aggregate |-> name]

SummaryKinds ==
    {Summary(Deg(51500000), Deg(-100000), HighSt, "A"),
     Summary(Deg(51500010), Deg(-99990), EmptyStr, "B"),
     Summary(Deg(51500001), Deg(-99999), Nowhere, "C"),
     Summary(NoCoord, BadCoord, MillLnLoose, "D"),
     Summary(Deg(51600000), Deg(-200000), HighStLoose, "E"),
     Summary(NoCoord, NoCoord, PyNone, "F")}

-----------------------------------------------------------------------------
(* The property list and uk_police_api.run_property_crime_summaries        *)

\* max_items of the pipeline's call and of the script's own call
PipelineMaxItems == 100
ScriptMaxItems == 10

\* lat is None or lng is None or lat == 0 or lng == 0
MissingOrZero(c) == c.t = "none" \/ (c.t = "float" /\ c.v = 0)

\* one dict of the property list; src is the position of its record in the
\* file (history)
Property(src, address, lat, lng) ==
    [src |-> src, title |-> EmptyStr, address |-> address, postcode |-> PyNone,
     lat |-> lat, lng |-> lng]

\* what a loader reads of one record: the two coordinates, the address, and
\* whether the test of its continue holds
Read(lat, lng, address, skip) ==
    [lat |-> lat, lng |-> lng, address |-> address, skip |-> skip]

\* the loop of a loader over what it read of data[:max_items]; float() of a
\* string that is no number raises, and every loader then returns []
Load(reads) ==
    LET kept == SelectSeq([i \in DOMAIN reads |-> i], LAMBDA i : ~reads[i].skip)
    IN  IF \E n \in DOMAIN kept :
                reads[kept[n]].lat.t = "str" \/ reads[kept[n]].lng.t = "str"
        THEN <<>>
        ELSE [n \in DOMAIN kept |->
                Property(kept[n], reads[kept[n]].address,
                         reads[kept[n]].lat, reads[kept[n]].lng)]

\* real_estate_data_pipeline.py, lines 224 to 255
modified_load_properties(file, max_items) ==
    LET data == FirstN(file, max_items)
    IN  Load([i \in DOMAIN data |->
                Read(CoordOr(data[i].lat, data[i].latitude),
                     CoordOr(data[i].lon, data[i].longitude),
                     Or(data[i].address_full, Or(data[i].address, EmptyStr)),
                     \/ MissingOrZero(CoordOr(data[i].lat, data[i].latitude))
                     \/ MissingOrZero(CoordOr(data[i].lon, data[i].longitude)))])

\* uk_police_api.py, lines 118 to 174.  With the file of line 123 readable the
\* loop of lines 129 to 145 runs over it (and the sample file of line 150 is
\* taken to be absent); with it unreadable the loop of lines 152 to 170 runs
\* over the properties of the sample file, whose location.latitude,
\* location.longitude and address are the record's latitude, longitude and
\* address.
load_properties(file, readable, max_items) ==
    LET data == FirstN(file, max_items)
    IN  IF readable
        THEN Load([i \in DOMAIN data |->
                    Read(data[i].lat, data[i].lon,
                         Or(data[i].address_full, EmptyStr),
                         MissingOrZero(data[i].lat) \/ MissingOrZero(data[i].lon))])
        ELSE Load([i \in DOMAIN data |->
                    Read(data[i].latitude, data[i].longitude,
                         Or(data[i].address, EmptyStr),
                         data[i].latitude.t = "none" \/ data[i].longitude.t = "none")])

ThisProperty == Str(<<"T", "h", "i", "s", " ", "p", "r", "o", "p", "e",
                    "r", "t", "y">>)

\* what aggregate_6month_crime can return to the loop: an empty aggregate or
\* one of three incidents
RunAggregates ==
    {Aggregate(IncidentList(n), SplitCounts(n, n)) : n \in {0, 3}}

-----------------------------------------------------------------------------
(* postcode_extraction.geoapify_geocode                                    *)
(*                                                                         *)
(* What one requests.get meets is [raises, status, body]: raises names the *)
(* exception of the request ("no" when it answers), status is              *)
(* r.status_code and body says what r.json() holds for a 200 answer.       *)

MAX_RETRIES == 3

Answer(status, body) == [raises |-> "no", status |-> status, body |-> body]
Failure(exception) == [raises |-> exception, status |-> 0, body |-> "none"]

\* "pair": features[0].geometry.coordinates is [lon, lat]; "short": it has
\* fewer than two items; "no_features": features is missing or empty;
\* "malformed": r.json() raises; "not_object": the JSON value has no get
Bodies == {"pair", "short", "no_features", "malformed", "not_object"}

GeoResponses ==
    {Failure(e) : e \in {"Timeout", "RequestException", "Exception"}}
        \cup {Answer(200, b) : b \in Bodies}
        \cup {Answer(st, "none") : st \in {429, 402, 401, 404, 500, 503}}

GeoPending == [kind |-> "pending", latitude |-> "None", longitude |-> "None"]
GeoNone == [kind |-> "None", latitude |-> "None", longitude |-> "None"]
GeoDict(lat, lon) == [kind |-> "dict", latitude |-> lat, longitude |-> lon]

\* the try block up to the status branches: what the call returns when it
\* does not go on to another attempt
Geocoded(r) ==
    IF r.raises # "no" THEN GeoNone
    ELSE IF r.status = 200
         THEN CASE r.body = "pair" -> GeoDict("coordinates[1]", "coordinates[0]")
                [] r.body = "short" -> GeoDict("None", "None")
                [] OTHER -> GeoNone
         ELSE GeoNone

ShouldRetryOnAnyError(r, n) == r.raises = "no" /\ r.status >= 429 /\ n <= MAX_RETRIES

\* elif r.status_code == 429: if attempt <= MAX_RETRIES
ShouldRetry(r, n) == r.raises = "no" /\ r.status = 429 /\ n <= MAX_RETRIES

\* wait_time = 2**attempt
WaitTime(n) == 2 ^ n

-----------------------------------------------------------------------------
(* real_estate_data_pipeline.py: the run ledger and run_pipeline           *)
(*                                                                         *)
(* self.log prints and appends to the log file, so a call of it either     *)
(* returns or raises an Exception; the body of a stage either ends, raises *)
(* an Exception or is interrupted by an exception that "except Exception"  *)
(* does not catch (KeyboardInterrupt, asyncio.CancelledError).  What a     *)
(* piece of code ends in is "True" or "False" (the value returned),        *)
(* "Exception" or "BaseException" (what it raises).                        *)

\* RealEstateDataPipeline.__init__: the keys of self.run_status, in order, and
\* the entry each starts with; 0 stands for the None of start and end, <<>> for
\* the None of error
Steps == {"scraping", "crime_data", "preprocessing"}
StepOrder == <<"scraping", "crime_data", "preprocessing">>
PendingStep == [status |-> "pending", start |-> 0, end |-> 0, error |-> <<>>]

\* error if error else "Unknown error"
ErrorMsg(error) == IF error = <<>> THEN <<"Unknown error">> ELSE error

\* log_step_start after its log: start and status
log_step_start(rs, step, now) ==
    [rs EXCEPT ![step].start = now, ![step].status = "running"]

\* log_step_complete up to its log: end
SetEnd(rs, step, now) == [rs EXCEPT ![step].end = now]

\* log_step_complete with the entry of a failed stage left without its end
log_step_complete_without_end(rs, step, now, success, error) ==
    IF success
    THEN [rs EXCEPT ![step].end = now, ![step].status = "completed"]
    ELSE [rs EXCEPT ![step].status = "failed", ![step].error = ErrorMsg(error)]

\* log_step_complete when its log returns
log_step_complete(rs, step, now, success, error) ==
    IF success
    THEN [SetEnd(rs, step, now) EXCEPT ![step].status = "completed"]
    ELSE [SetEnd(rs, step, now) EXCEPT ![step].status = "failed",
                                       ![step].error = ErrorMsg(error)]

Outcome(rs, now, exit) == [rs |-> rs, clock |-> now, exit |-> exit]

\* what the body of a stage raises, by the message of the exception: the
\* raise statements of the three bodies, and an exception of a callee
Causes(step) ==
    CASE step = "scraping" ->
            {"Scraper file not found", "Scraper failed with return code",
             "No JSON files generated by scraper", "other"}
      [] step = "crime_data" ->
            {"Crime API file not found", "Could not create module spec",
             "Crime summaries file not generated", "other"}
      [] step = "preprocessing" ->
            {"Preprocessing file not found", "Could not create module spec",
             "Cleaned data file not generated", "other"}

\* error_msg = f"... step failed: {str(e)}": never empty; held as the pair of
\* the stage and the message of the exception
StepFailed(step, cause) == <<step, cause>>

\* the except block of a stage, entered with the ledger rs at time now:
\* log_error raises, or the log of log_step_complete raises, or the stage
\* returns (False, error_msg)
StepHandler(rs, step, now, cause) ==
    {Outcome(rs, now, "Exception"),
     Outcome(SetEnd(rs, step, now + 1), now + 1, "Exception"),
     Outcome(log_step_complete(rs, step, now + 1, FALSE, StepFailed(step, cause)),
             now + 1, "False")}

\* the try block of run_scraping_step, run_crime_data_step and
\* run_preprocessing_step with its except block: every way it can end.  The
\* body is interrupted; or it ends and is logged as completed; or it ends and
\* the log of log_step_complete raises into the except block; or it raises
\* into the except block.
StepEndings(rs, step, now) ==
    {Outcome(rs, now, "BaseException"),
     Outcome(log_step_complete(rs, step, now + 1, TRUE, <<>>), now + 1, "True")}
        \cup StepHandler(SetEnd(rs, step, now + 1), step, now + 1, "log failed")
        \cup UNION {StepHandler(rs, step, now, cause) : cause \in Causes(step)}

\* save_run_summary: overall_status
OverallStatus(rs) ==
    IF \A step \in DOMAIN rs : rs[step].status = "completed"
    THEN "completed" ELSE "failed"

-----------------------------------------------------------------------------
(* The state machines                                                      *)

NotCalled == [called |-> FALSE, raised |-> FALSE, value |-> EmptyDict]
NoAggregate == Aggregate(<<>>, EmptyDict)

\* the current dates of the model: January and March reach back into the
\* year before, August does not
Todays == {<<2025, 1>>, <<2025, 3>>, <<2025, 8>>}

GetCall(ym, ok) == [op |-> "get", ym |-> ym, ok |-> ok]
SleepCall == [op |-> "sleep", ym |-> <<>>, ok |-> TRUE]

ExtractIdle ==
    /\ html = [zad |-> BlockAbsent, ld |-> BlockAbsent, text |-> PlainText,
               stations |-> NoArray, miles |-> NoArray, schools |-> NoArray,
               school_phrase |-> "none"]
    /\ visible_text = [given |-> FALSE, blank |-> FALSE, text |-> PlainText]
    /\ result = NotCalled

CrimeIdle ==
    /\ today = <<2025, 8>>
    /\ pc = "start"
    /\ months = <<>>
    /\ idx = 0
    /\ monthly_counts = EmptyDict
    /\ all_crimes = <<>>
    /\ agg = NoAggregate
    /\ calls = <<>>

SummaryIdle ==
    /\ summary_args = [address |-> <<>>, postcode |-> PyNone, agg |-> NoAggregate]
    /\ summary = [called |-> FALSE, text |-> <<>>]

MergeIdle ==
    /\ scraped = <<>>
    /\ summaries = <<>>
    /\ by_coords = EmptyDict
    /\ by_addr = EmptyDict
    /\ cursor = 0
    /\ embedded_count = 0
    /\ merge_log = <<>>
    /\ mpc = "idle"

RunIdle ==
    /\ loader = "pipeline"
    /\ properties = <<>>
    /\ position = 0
    /\ invocations = <<>>
    /\ results = <<>>
    /\ rpc = "idle"

GeoIdle ==
    /\ query = <<>>
    /\ attempt = 1
    /\ responses = <<>>
    /\ sleeps = <<>>
    /\ geo_result = "pending"
    /\ gpc = "idle"

PipeIdle ==
    /\ run_status = [step \in Steps |-> PendingStep]
    /\ clock = 0
    /\ started = <<>>
    /\ returned = "pending"
    /\ saved = <<>>
    /\ ppc = "idle"

IdleExceptExtract ==
    CrimeIdle /\ SummaryIdle /\ MergeIdle /\ RunIdle /\ GeoIdle /\ PipeIdle
IdleExceptCrime ==
    ExtractIdle /\ SummaryIdle /\ MergeIdle /\ RunIdle /\ GeoIdle /\ PipeIdle
IdleExceptSummary ==
    ExtractIdle /\ CrimeIdle /\ MergeIdle /\ RunIdle /\ GeoIdle /\ PipeIdle
IdleExceptMerge ==
    ExtractIdle /\ CrimeIdle /\ SummaryIdle /\ RunIdle /\ GeoIdle /\ PipeIdle
IdleExceptStep == ExtractIdle /\ CrimeIdle /\ SummaryIdle /\ GeoIdle /\ PipeIdle
IdleExceptGeo ==
    /\ ExtractIdle /\ CrimeIdle /\ SummaryIdle /\ MergeIdle /\ RunIdle
    /\ PipeIdle
IdleExceptPipe ==
    /\ ExtractIdle /\ CrimeIdle /\ SummaryIdle /\ MergeIdle /\ RunIdle
    /\ GeoIdle

\* one call of extract_from_html on a document of the model
InitExtract ==
    /\ html \in Documents
    /\ visible_text \in VisibleTexts
    /\ result = NotCalled
    /\ IdleExceptExtract

ExtractFromHtml ==
    /\ ~result.called
    /\ LET r == extract_from_html(html, visible_text)
       IN  result' = [called |-> TRUE, raised |-> r.raised, value |-> r.value]
    /\ UNCHANGED <<html, visible_text>>
    /\ UNCHANGED exceptExtract

NextExtract == ExtractFromHtml

SpecExtract == InitExtract /\ [][NextExtract]_vars

\* one call of aggregate_6month_crime
InitCrime ==
    /\ IdleExceptCrime
    /\ today \in Todays
    /\ pc = "start"
    /\ months = <<>>
    /\ idx = 0
    /\ monthly_counts = EmptyDict
    /\ all_crimes = <<>>
    /\ agg = NoAggregate
    /\ calls = <<>>

\* lines 31 to 33
StartAggregate ==
    /\ pc = "start"
    /\ months' = generate_recent_months(NumMonths)
    /\ idx' = 1
    /\ monthly_counts' = EmptyDict
    /\ all_crimes' = <<>>
    /\ pc' = IF NumMonths > 0 THEN "fetch" ELSE "reduce"
    /\ UNCHANGED <<today, agg, calls>>
    /\ UNCHANGED exceptCrime

\* the request repeated once, at once, when it fails
FetchMonthRetryOnce ==
    /\ pc = "fetch"
    /\ \E first \in Responses, second \in Responses :
        LET ym == months[idx]
            failed == first.kind \notin {"list", "null"}
            crimes == fetch_month_crimes(IF failed THEN second ELSE first)
            got == Append(calls, GetCall(ym, ~failed))
        IN  /\ monthly_counts' = Put(monthly_counts, ym, Len(crimes))
            /\ all_crimes' = all_crimes \o crimes
            /\ calls' = IF failed
                        THEN Append(got, GetCall(ym, second.kind \in {"list", "null"}))
                        ELSE got
    /\ pc' = "sleep"
    /\ UNCHANGED <<today, months, idx, agg>>
    /\ UNCHANGED exceptCrime

\* FetchMonth as it would be if a failed request ended the aggregation
FetchMonthAbortOnFailure ==
    /\ pc = "fetch"
    /\ \E response \in Responses :
        LET ym == months[idx]
            crimes == fetch_month_crimes(response)
            failed == response.kind \notin {"list", "null"}
        IN  /\ monthly_counts' = IF failed THEN monthly_counts
                                 ELSE Put(monthly_counts, ym, Len(crimes))
            /\ all_crimes' = all_crimes \o crimes
            /\ calls' = Append(calls, GetCall(ym, ~failed))
            /\ pc' = IF failed THEN "raised" ELSE "sleep"
    /\ UNCHANGED <<today, months, idx, agg>>
    /\ UNCHANGED exceptCrime

\* lines 35 to 37: the request for months[idx] and what the loop does with it
FetchMonth ==
    /\ pc = "fetch"
    /\ \E response \in Responses :
        LET ym == months[idx]
            crimes == fetch_month_crimes(response)
        IN  /\ monthly_counts' = Put(monthly_counts, ym, Len(crimes))
            /\ all_crimes' = all_crimes \o crimes
            /\ calls' = Append(calls, GetCall(ym, response.kind \in {"list", "null"}))
    /\ pc' = "sleep"
    /\ UNCHANGED <<today, months, idx, agg>>
    /\ UNCHANGED exceptCrime

\* line 38, and the loop moves to the next month
Sleep ==
    /\ pc = "sleep"
    /\ calls' = Append(calls, SleepCall)
    /\ idx' = idx + 1
    /\ pc' = IF idx + 1 <= Len(months) THEN "fetch" ELSE "reduce"
    /\ UNCHANGED <<today, months, monthly_counts, all_crimes, agg>>
    /\ UNCHANGED exceptCrime

\* lines 40 to 80; the street comprehension raises on a null street
ReturnAggregate ==
    /\ pc = "reduce"
    /\ IF \E i \in DOMAIN all_crimes : StreetRaises(all_crimes[i])
       THEN pc' = "raised" /\ agg' = agg
       ELSE pc' = "done" /\ agg' = Aggregate(all_crimes, monthly_counts)
    /\ UNCHANGED <<today, months, idx, monthly_counts, all_crimes, calls>>
    /\ UNCHANGED exceptCrime

NextCrime == StartAggregate \/ FetchMonth \/ Sleep \/ ReturnAggregate

SpecCrime == InitCrime /\ [][NextCrime]_vars

\* the pools of the tally: up to MaxSparse incidents with missing or null
\* parts, or up to MaxPool incidents of the five streets
MaxSparse == 2
MaxPool == 5
Pools ==
    UNION {[1..n -> SparseKinds] : n \in 1..MaxSparse}
        \cup UNION {[1..n -> StreetKinds] : n \in 0..MaxPool}

\* aggregate_6month_crime when the loop of lines 34 to 38 has ended: the
\* first request was answered with the pool and the five others with []
InitTally ==
    /\ IdleExceptCrime
    /\ today = <<2025, 8>>
    /\ pc = "reduce"
    /\ months = generate_recent_months(NumMonths)
    /\ idx = NumMonths + 1
    /\ all_crimes \in Pools
    /\ monthly_counts =
            [k \in {months[i] : i \in 1..NumMonths} |->
                IF k = months[1] THEN Len(all_crimes) ELSE 0]
    /\ agg = NoAggregate
    /\ calls = [i \in 1..(2 * NumMonths) |->
                    IF i % 2 = 1 THEN GetCall(months[(i + 1) \div 2], TRUE)
                    ELSE SleepCall]

NextTally == ReturnAggregate

SpecTally == InitTally /\ [][NextTally]_vars


\* one call of generate_recent_months(6) on any first-of-month date of the
\* calendar years of the model
MaxYears == 9
Calendar == {<<2017 + y, m>> : y \in 1..MaxYears, m \in 1..12}

InitMonths ==
    /\ IdleExceptCrime
    /\ today \in Calendar
    /\ pc = "start"
    /\ months = <<>>
    /\ idx = 0
    /\ monthly_counts = EmptyDict
    /\ all_crimes = <<>>
    /\ agg = NoAggregate
    /\ calls = <<>>

GenerateRecentMonths ==
    /\ pc = "start"
    /\ months' = generate_recent_months(NumMonths)
    /\ pc' = "months"
    /\ UNCHANGED <<today, idx, monthly_counts, all_crimes, agg, calls>>
    /\ UNCHANGED exceptCrime

NextMonths == GenerateRecentMonths

SpecMonths == InitMonths /\ [][NextMonths]_vars

\* the largest total of the aggregates handed to build_accurate_summary
MaxTotal == 22

\* aggregates as aggregate_6month_crime returns them
SummaryAggregates ==
    UNION {{Aggregate(IncidentList(n), SplitCounts(n, newest)) :
                newest \in {k \in {0, 1, 3, n} : k <= n}} : n \in 0..MaxTotal}

Addresses ==
    {<<"9", " ", "K", "i", "n", "g", "s", " ", "R", "o", "w">>,
     <<"T", "h", "i", "s", " ", "p", "r", "o", "p", "e", "r", "t", "y">>}

Postcodes == {PyNone, EmptyStr, Str(<<"M", "1", "4">>)}

\* one call of build_accurate_summary
InitSummary ==
    /\ IdleExceptSummary
    /\ summary_args \in [address : Addresses, postcode : Postcodes,
                         agg : SummaryAggregates]
    /\ summary = [called |-> FALSE, text |-> <<>>]

BuildSummary ==
    /\ ~summary.called
    /\ summary' = [called |-> TRUE,
                   text |-> build_accurate_summary(summary_args.address,
                                summary_args.postcode, summary_args.agg,
                                DefaultRadius)]
    /\ UNCHANGED summary_args
    /\ UNCHANGED exceptSummary

NextSummary == BuildSummary

SpecSummary == InitSummary /\ [][NextSummary]_vars

\* the merge of run_crime_data_step on a scraped file of up to MaxRecords
\* records and a summaries file of up to MaxSummaries summaries
MaxRecords == 2
MaxSummaries == 2

ScrapedFiles == UNION {[1..n -> ScrapedKinds] : n \in 1..MaxRecords}
SummaryFiles == UNION {[1..n -> SummaryKinds] : n \in 0..MaxSummaries}

\* lines 276 to 279
InitMerge ==
    /\ IdleExceptMerge
    /\ scraped \in ScrapedFiles
    /\ summaries \in SummaryFiles
    /\ by_coords = EmptyDict
    /\ by_addr = EmptyDict
    /\ cursor = 0
    /\ embedded_count = 0
    /\ merge_log = <<>>
    /\ mpc = "loaded"

\* lines 290 to 308
BuildIndexes ==
    /\ mpc = "loaded"
    /\ by_coords' = BuildByCoords(scraped)
    /\ by_addr' = BuildByAddr(scraped)
    /\ embedded_count' = 0
    /\ cursor' = 1
    /\ mpc' = IF summaries = <<>> THEN "merged" ELSE "merge"
    /\ UNCHANGED <<scraped, summaries, merge_log>>
    /\ UNCHANGED exceptMerge

\* lines 309 to 324: one turn of the loop, on summaries[cursor]
MergeSummary ==
    /\ mpc = "merge"
    /\ LET c == summaries[cursor]
           m == MatchTarget(c, by_coords, by_addr)
           after == IF m.target # 0 THEN ApplySummary(scraped, m.target, c)
                    ELSE scraped
       IN  /\ scraped' = after
           /\ embedded_count' = IF m.target # 0 THEN embedded_count + 1
                                ELSE embedded_count
           /\ merge_log' = Append(merge_log,
                [coords_tried |-> m.coords_tried, coords_target |-> m.coords_target,
                 addr_consulted |-> m.addr_consulted, target |-> m.target,
                 changed |-> {i \in DOMAIN scraped : after[i] # scraped[i]}])
    /\ cursor' = cursor + 1
    /\ mpc' = IF cursor + 1 > Len(summaries) THEN "merged" ELSE "merge"
    /\ UNCHANGED <<summaries, by_coords, by_addr>>
    /\ UNCHANGED exceptMerge

NextMerge == BuildIndexes \/ MergeSummary

SpecMerge == InitMerge /\ [][NextMerge]_vars

\* run_property_crime_summaries behind each of its loaders: the pipeline's
\* modified_load_properties, or load_properties on its own file ("script") or
\* on the sample file ("sample")
Loaders == {"pipeline", "script", "sample"}

InitRun ==
    /\ IdleExceptStep
    /\ scraped \in ScrapedFiles
    /\ summaries = <<>>
    /\ by_coords = EmptyDict
    /\ by_addr = EmptyDict
    /\ cursor = 0
    /\ embedded_count = 0
    /\ merge_log = <<>>
    /\ mpc = "idle"
    /\ loader \in Loaders
    /\ properties = <<>>
    /\ position = 0
    /\ invocations = <<>>
    /\ results = <<>>
    /\ rpc = "start"

\* uk_police_api.py, line 178
LoadProperties ==
    /\ rpc = "start"
    /\ properties' =
        IF loader = "pipeline"
        THEN modified_load_properties(scraped, PipelineMaxItems)
        ELSE load_properties(scraped, loader = "script", ScriptMaxItems)
    /\ position' = 1
    /\ results' = <<>>
    /\ rpc' = IF properties' = <<>> THEN "save" ELSE "loop"
    /\ UNCHANGED <<loader, invocations>>
    /\ UNCHANGED <<mergeVars, exceptStep>>

\* lines 182 to 207: one turn of the loop
ProcessProperty ==
    /\ rpc = "loop"
    /\ LET prop == properties[position]
           address == Or(prop.address, Or(prop.title, ThisProperty))
       IN  IF prop.lat.t = "none" \/ prop.lng.t = "none"
           THEN UNCHANGED <<invocations, results>>
           ELSE \E aggregate \in RunAggregates :
                /\ invocations' = Append(invocations,
                        [src |-> prop.src, lat |-> prop.lat, lng |-> prop.lng])
                /\ results' = Append(results,
                        [lat |-> prop.lat, lng |-> prop.lng, address |-> prop.address,
                         summary |-> build_accurate_summary(address.s, prop.postcode,
                                                            aggregate, DefaultRadius),
                         aggregate |-> aggregate])
    /\ position' = position + 1
    /\ rpc' = IF position + 1 > Len(properties) THEN "save" ELSE "loop"
    /\ UNCHANGED <<loader, properties>>
    /\ UNCHANGED <<mergeVars, exceptStep>>

\* lines 210 to 230: property_crime_summaries.json is written
SaveSummaries ==
    /\ rpc = "save"
    /\ summaries' = results
    /\ rpc' = "saved"
    /\ UNCHANGED <<scraped, by_coords, by_addr, cursor, embedded_count, merge_log, mpc>>
    /\ UNCHANGED <<loader, properties, position, invocations, results>>
    /\ UNCHANGED exceptStep

NextRun == LoadProperties \/ ProcessProperty \/ SaveSummaries

SpecRun == InitRun /\ [][NextRun]_vars

\* the data path of run_crime_data_step, lines 263 to 324:
\* run_property_crime_summaries behind modified_load_properties, then the
\* merge of the file it wrote into the same scraped file
InitStep ==
    /\ InitRun
    /\ loader = "pipeline"

\* what was computed for the coordinates of the record at position src of
\* the file: the sentence and the aggregate are held by this name
ComputedFor(src) == ToString(src)

\* lines 182 to 207 of uk_police_api.py: one turn of the loop
SummariseProperty ==
    /\ rpc = "loop"
    /\ LET prop == properties[position]
       IN  IF prop.lat.t = "none" \/ prop.lng.t = "none"
           THEN UNCHANGED <<invocations, results>>
           ELSE /\ invocations' = Append(invocations,
                        [src |-> prop.src, lat |-> prop.lat, lng |-> prop.lng])
                /\ results' = Append(results,
                        [lat |-> prop.lat, lng |-> prop.lng, address |-> prop.address,
                         summary |-> ComputedFor(prop.src),
                         aggregate |-> ComputedFor(prop.src)])
    /\ position' = position + 1
    /\ rpc' = IF position + 1 > Len(properties) THEN "save" ELSE "loop"
    /\ UNCHANGED <<loader, properties>>
    /\ UNCHANGED <<mergeVars, exceptStep>>

\* lines 270 to 279: the two files are read back
LoadFiles ==
    /\ rpc = "saved"
    /\ mpc = "idle"
    /\ mpc' = "loaded"
    /\ UNCHANGED <<scraped, summaries, by_coords, by_addr, cursor, embedded_count,
                   merge_log>>
    /\ UNCHANGED <<runVars, exceptStep>>

NextStep ==
    \/ LoadProperties
    \/ SummariseProperty
    \/ SaveSummaries
    \/ LoadFiles
    \/ BuildIndexes
    \/ MergeSummary

SpecStep == InitStep /\ [][NextStep]_vars

\* the queries of the model: the empty string and two addresses
Queries == {<<>>, <<"M", "1">>, <<"1", " ", "H", "i", "g", "h", " ", "S", "t">>}

\* geoapify_geocode(query) is called with the default attempt = 1
InitGeocode ==
    /\ query \in Queries
    /\ attempt = 1
    /\ responses = <<>>
    /\ sleeps = <<>>
    /\ geo_result = GeoPending
    /\ gpc = "call"
    /\ IdleExceptGeo

\* entry of the function, for the first call and for each recursive one:
\* if not query: return None
EnterGeocode ==
    /\ gpc = "call"
    /\ IF query = <<>>
       THEN geo_result' = GeoNone /\ gpc' = "returned"
       ELSE geo_result' = geo_result /\ gpc' = "request"
    /\ UNCHANGED <<query, attempt, responses, sleeps>>
    /\ UNCHANGED exceptGeo

\* requests.get and the branch on what it met
Request ==
    /\ gpc = "request"
    /\ \E r \in GeoResponses :
        /\ responses' = Append(responses, r)
        /\ IF ShouldRetry(r, attempt)
           THEN geo_result' = geo_result /\ gpc' = "sleep"
           ELSE geo_result' = Geocoded(r) /\ gpc' = "returned"
    /\ UNCHANGED <<query, attempt, sleeps>>
    /\ UNCHANGED exceptGeo

\* time.sleep(wait_time); return geoapify_geocode(query, attempt + 1)
Backoff ==
    /\ gpc = "sleep"
    /\ sleeps' = Append(sleeps, WaitTime(attempt))
    /\ attempt' = attempt + 1
    /\ gpc' = "call"
    /\ UNCHANGED <<query, responses, geo_result>>
    /\ UNCHANGED exceptGeo

NextGeocode == EnterGeocode \/ Request \/ Backoff

SpecGeocode == InitGeocode /\ [][NextGeocode]_vars

\* one call of run_pipeline on a pipeline object just constructed
InitPipeline ==
    /\ IdleExceptPipe
    /\ run_status = [step \in Steps |-> PendingStep]
    /\ clock = 0
    /\ started = <<>>
    /\ returned = "pending"
    /\ saved = <<>>
    /\ ppc = "call"

\* line 456: the log before the try block
StartPipeline ==
    /\ ppc = "call"
    /\ \E log_raises \in BOOLEAN :
        IF log_raises
        THEN returned' = "Exception" /\ ppc' = "done"
        ELSE returned' = returned /\ ppc' = "scraping"
    /\ UNCHANGED <<run_status, clock, started, saved>>
    /\ UNCHANGED exceptPipe

NextAfter(step) ==
    CASE step = "scraping" -> "crime_data"
      [] step = "crime_data" -> "preprocessing"
      [] step = "preprocessing" -> "finish"

\* lines 460, 466 and 472: a stage is called and runs log_step_start
StartStep ==
    /\ ppc \in Steps
    /\ \E log_raises \in BOOLEAN :
        IF log_raises
        THEN /\ ppc' = "except"
             /\ UNCHANGED <<run_status, clock, started>>
        ELSE /\ run_status' = log_step_start(run_status, ppc, clock + 1)
             /\ clock' = clock + 1
             /\ started' = Append(started, ppc)
             /\ ppc' = "body"
    /\ UNCHANGED <<returned, saved>>
    /\ UNCHANGED exceptPipe

\* the stage that was started last ends, and run_pipeline goes where the
\* end leads
EndStep ==
    /\ ppc = "body"
    /\ LET step == started[Len(started)]
       IN  \E o \in StepEndings(run_status, step, clock) :
            /\ run_status' = o.rs
            /\ clock' = o.clock
            /\ returned' = IF o.exit = "BaseException" THEN "BaseException"
                           ELSE returned
            /\ ppc' = CASE o.exit = "True" -> NextAfter(step)
                        [] o.exit = "False" -> "stopped"
                        [] o.exit = "Exception" -> "except"
                        [] o.exit = "BaseException" -> "finally"
    /\ UNCHANGED <<started, saved>>
    /\ UNCHANGED exceptPipe

\* lines 461 to 463, 467 to 469, 475 to 477: the log of the failed stage and
\* return False
StopAtFailedStep ==
    /\ ppc = "stopped"
    /\ \E log_raises \in BOOLEAN :
        IF log_raises
        THEN returned' = returned /\ ppc' = "except"
        ELSE returned' = "False" /\ ppc' = "finally"
    /\ UNCHANGED <<run_status, clock, started, saved>>
    /\ UNCHANGED exceptPipe

\* lines 479 to 483: the two logs of a complete run and return True
FinishPipeline ==
    /\ ppc = "finish"
    /\ \E log_raises \in BOOLEAN :
        IF log_raises
        THEN returned' = returned /\ ppc' = "except"
        ELSE returned' = "True" /\ ppc' = "finally"
    /\ UNCHANGED <<run_status, clock, started, saved>>
    /\ UNCHANGED exceptPipe

\* lines 485 to 487: except Exception, log_error and return False
CatchException ==
    /\ ppc = "except"
    /\ \E log_raises \in BOOLEAN :
        returned' = IF log_raises THEN "Exception" ELSE "False"
    /\ ppc' = "finally"
    /\ UNCHANGED <<run_status, clock, started, saved>>
    /\ UNCHANGED exceptPipe

\* lines 489 to 491: save_run_summary in the finally block.  The summary is
\* written unless opening or writing the file raises; an exception of
\* save_run_summary takes the place of what the try block ended in.
SaveRunSummary ==
    /\ ppc = "finally"
    /\ clock' = clock + 1
    /\ \E written \in BOOLEAN, log_raises \in BOOLEAN :
        /\ saved' = Append(saved, [overall_status |-> OverallStatus(run_status),
                                   written |-> written])
        /\ returned' = IF ~written \/ log_raises THEN "Exception" ELSE returned
    /\ ppc' = "done"
    /\ UNCHANGED <<run_status, started>>
    /\ UNCHANGED exceptPipe

NextPipeline ==
    \/ StartPipeline
    \/ StartStep
    \/ EndStep
    \/ StopAtFailedStep
    \/ FinishPipeline
    \/ CatchException
    \/ SaveRunSummary

SpecPipeline == InitPipeline /\ [][NextPipeline]_vars

-----------------------------------------------------------------------------
(* Properties of extract_from_html, checked under SpecExtract              *)

Returned == result.called /\ ~result.raised

\* the text the rules of step 4 read in this call
Txt == BaseText(html, visible_text)

NonEmpty(v) ==
    /\ v.t # "none"
    /\ v.s # <<>>
    /\ ~(v.t = "list" /\ v.s = <<"[", "]">>)
    /\ ~(v.t = "dict" /\ v.s = <<"{", "}">>)

Has(d, k) == k \in DOMAIN d /\ NonEmpty(d[k])

\* C1: whatever the document and the visible text, the returned record has no
\* key whose value is None, "", [] or {}.
C1_NoEmptyValues ==
    result.called =>
        /\ ~result.raised
        /\ \A k \in DOMAIN result.value : NonEmpty(result.value[k])

\* a call whose merged record held an empty value before the clean-up and
\* that still returned some fields
C1_Witness ==
    /\ Returned
    /\ \E k \in DOMAIN AfterText(html, visible_text) :
            ~NonEmpty(AfterText(html, visible_text)[k])
    /\ DOMAIN result.value # {}

\* what the final clean-up makes of a value that no layer replaced
Cleaned(k, v) ==
    IF k = "size_sq_feet" THEN Str(RemoveChar(v.s, ",")) ELSE v

\* C2: for every key but price and title, a non-empty value set by the
\* ad-targeting block or the JSON-LD block is the value of the final record:
\* no later layer replaces it.
C2_EarlierLayerWins ==
    Returned =>
        \A k \in DOMAIN AfterLd(html).out \ {"price", "title"} :
            NonEmpty(AfterLd(html).out[k]) =>
                /\ k \in DOMAIN result.value
                /\ result.value[k] = Cleaned(k, AfterLd(html).out[k])

\* the price of the offers object of the JSON-LD block, None when there is none
OffersPrice(doc) ==
    IF doc.ld.kind = "object" /\ Get(doc.ld.obj, "offers").t = "dict"
    THEN Get(Get(doc.ld.obj, "offers").items, "price")
    ELSE PyNone

\* a price after the final clean-up: its number when it has one
AsPrice(v) == Or(_norm_money(v), v)

Price450000 == Str(<<"4", "5", "0", "0", "0", "0">>)
Price460000 == Str(<<"4", "6", "0", "0", "0", "0">>)

\* C3: when the offers object carries a non-empty price, the final price is
\* that price (reduced to its number) whatever the ad-targeting block gave, so
\* 450000 against 460000 gives 460000; when it carries none, the ad-targeting
\* price is kept.
C3_OffersPriceWins ==
    Returned =>
        LET offer == OffersPrice(html)
            zad == Get(AfterZad(html).out, "price")
        IN  /\ Truthy(offer) =>
                /\ "price" \in DOMAIN result.value
                /\ result.value["price"] = AsPrice(ToStr(offer))
            /\ (zad = Price450000 /\ offer = Price460000) =>
                result.value["price"] = Price460000
            /\ (~Truthy(offer) /\ Truthy(zad)) =>
                /\ "price" \in DOMAIN result.value
                /\ result.value["price"] = AsPrice(zad)

C3_Witness ==
    /\ Returned
    /\ Get(AfterZad(html).out, "price") = Price450000
    /\ OffersPrice(html) = Price460000
    /\ result.value["price"] = Price460000

\* C4: the bed/bath/reception rule of the visible text fills bedrooms,
\* bathrooms and receptions only where the ad-targeting block gave no
\* non-empty value: with num_beds = 4 and "3 beds" the final bedrooms is "4".
C4_CountsOnlyFill ==
    Returned =>
        \A k \in {"bedrooms", "bathrooms", "receptions"} :
            Has(AfterZad(html).out, k) =>
                /\ k \in DOMAIN result.value
                /\ result.value[k] = AfterZad(html).out[k]

\* the ad-targeting block carried a has_epc field that step 2 took over
ZadCarriesHasEpc(doc) ==
    /\ doc.zad.kind = "object"
    /\ ~ZadFields(doc.zad.obj).raised
    /\ "has_epc" \in DOMAIN doc.zad.obj

\* C5: when the visible text gives an EPC rating letter and the ad-targeting
\* block carried no has_epc field, the final record has has_epc = "True"
\* together with epc_rating.
C5_EpcSetsFlag ==
    Returned =>
        ((Txt.epc # PyNone /\ ~ZadCarriesHasEpc(html)) =>
            /\ "epc_rating" \in DOMAIN result.value
            /\ "has_epc" \in DOMAIN result.value
            /\ result.value["has_epc"] = Str(<<"T", "r", "u", "e">>))

\* step 2 fails: the block does not parse, or a field has a type the dict
\* literal cannot handle
ZadFails(doc) ==
    \/ doc.zad.kind = "malformed"
    \/ doc.zad.kind = "object" /\ ZadFields(doc.zad.obj).raised

LdFails(doc) == doc.ld.kind = "malformed"

-----------------------------------------------------------------------------
(* Properties of aggregate_6month_crime, checked under SpecCrime           *)

\* months is newest first: the three newest months and the three before
NewestThree == monthly_counts[months[1]] + monthly_counts[months[2]] + monthly_counts[months[3]]
OldestThree == monthly_counts[months[4]] + monthly_counts[months[5]] + monthly_counts[months[6]]

\* the monthly counts, oldest month first
OldestFirst == [i \in 1..NumMonths |-> monthly_counts[months[NumMonths + 1 - i]]]

\* C8: with prev3 > 0 the trend is "rising" when (last3 - prev3) / prev3 > 0.15,
\* "falling" when it is < -0.15 and "stable" otherwise, the bounds included;
\* last3 and prev3 are the sums of the three newest months and of the three
\* before; counts 10,10,10,2,2,2 oldest to newest give "falling".
C8_TrendRule ==
    pc = "done" =>
        /\ OldestThree > 0 =>
            agg.trend =
                IF 100 * (NewestThree - OldestThree) > 15 * OldestThree THEN "rising"
                ELSE IF 100 * (NewestThree - OldestThree) < -15 * OldestThree THEN "falling"
                ELSE "stable"
        /\ OldestFirst = <<10, 10, 10, 2, 2, 2>> => agg.trend = "falling"

\* a change of exactly 0.15 (20 incidents, then 23), in a window that spans
\* two years
C8_Witness ==
    /\ pc = "done"
    /\ OldestThree = 20
    /\ NewestThree = 23
    /\ agg.trend = "stable"
    /\ today = <<2025, 3>>

\* C9: when the three oldest months sum to zero the trend is "stable" whatever
\* the three newest hold; counts 0,0,0,10,10,10 give "stable".
C9_NoBaselineIsStable ==
    pc = "done" =>
        /\ OldestThree = 0 => agg.trend = "stable"
        /\ OldestFirst = <<0, 0, 0, 10, 10, 10>> => agg.trend = "stable"

C9_Witness ==
    /\ pc = "done"
    /\ OldestFirst = <<0, 0, 0, 10, 10, 10>>
    /\ agg.trend = "stable"

\* the calls a complete run makes: for each month key in turn one request,
\* then the pause
IsGetFor(c, ym) == c.op = "get" /\ c.ym = ym

PacedPrefix ==
    /\ Len(calls) <= 2 * NumMonths
    /\ \A n \in DOMAIN calls :
          IF n % 2 = 1 THEN IsGetFor(calls[n], months[(n + 1) \div 2])
          ELSE calls[n] = SleepCall

\* C10: one call issues exactly 6 requests, one for each month key of the
\* window and none twice, each after the previous request returned and the
\* pause that follows it has run; no request is repeated, failed or not.
C10_SixPacedFetches ==
    /\ pc # "start" =>
          /\ Len(months) = NumMonths
          /\ \A m, n \in DOMAIN months : m # n => months[m] # months[n]
          /\ PacedPrefix
    /\ pc = "fetch" => Len(calls) = 2 * (idx - 1)
    /\ pc = "sleep" => Len(calls) = 2 * idx - 1
    /\ pc \in {"reduce", "done", "raised"} =>
          /\ Len(calls) = 2 * NumMonths
          /\ Cardinality({n \in DOMAIN calls : calls[n].op = "get"}) = 6

\* a complete run in which a request failed and a later one succeeded
C10_Witness ==
    /\ pc = "done"
    /\ ~calls[1].ok
    /\ calls[3].ok
    /\ agg.total > 0

\* the months whose request failed, by the log of the calls
FailedMonths == {calls[n].ym : n \in {m \in DOMAIN calls : calls[m].op = "get" /\ ~calls[m].ok}}

\* the requests made so far
Requested == {calls[n].ym : n \in {m \in DOMAIN calls : calls[m].op = "get"}}

WindowKeys == {months[i] : i \in DOMAIN months}

\* C11: a failed request never ends the aggregation: a failed month counts 0,
\* the loop goes on to the remaining months, and the returned monthly_counts
\* has exactly the six keys of the window.
C11_FailedFetchCountsZero ==
    /\ \A ym \in FailedMonths : ym \in DOMAIN monthly_counts /\ monthly_counts[ym] = 0
    /\ pc \in {"reduce", "done", "raised"} =>
        /\ Requested = WindowKeys
        /\ DOMAIN monthly_counts = WindowKeys
        /\ Cardinality(WindowKeys) = NumMonths
    /\ pc = "done" =>
        /\ DOMAIN agg.monthly_counts = WindowKeys
        /\ \A ym \in FailedMonths : agg.monthly_counts[ym] = 0
        /\ agg.total = Len(all_crimes)

\* an aggregation that returned although the requests of some months failed
\* and a later one brought incidents
C11_Witness ==
    /\ pc = "done"
    /\ months[1] \in FailedMonths
    /\ months[3] \in FailedMonths
    /\ months[4] \notin FailedMonths
    /\ agg.monthly_counts[months[4]] > 0

-----------------------------------------------------------------------------
(* Properties of generate_recent_months, checked under SpecMonths          *)

\* the year and the month a key spells
KeyYear(k) == DigitsToInt(SubSeq(k, 1, 4))
KeyMonth(k) == DigitsToInt(SubSeq(k, 6, 7))

WellFormedKey(k) ==
    /\ Len(k) = 7
    /\ k[5] = "-"
    /\ \A i \in {1, 2, 3, 4, 6, 7} : k[i] \in Digits
    /\ KeyMonth(k) \in 1..12

\* C12: generate_recent_months(6) returns six distinct keys; the first is the
\* current month, each next one is the calendar month before the previous
\* one, December of the year before after a January, the month within 01..12.
C12_SixConsecutiveMonths ==
    pc = "months" =>
        /\ Len(months) = 6
        /\ \A i \in 1..6 : WellFormedKey(months[i])
        /\ \A i, j \in 1..6 : i # j => months[i] # months[j]
        /\ KeyYear(months[1]) = today[1]
        /\ KeyMonth(months[1]) = today[2]
        /\ \A i \in 1..5 :
            IF KeyMonth(months[i]) = 1
            THEN /\ KeyMonth(months[i + 1]) = 12
                 /\ KeyYear(months[i + 1]) = KeyYear(months[i]) - 1
            ELSE /\ KeyMonth(months[i + 1]) = KeyMonth(months[i]) - 1
                 /\ KeyYear(months[i + 1]) = KeyYear(months[i])

\* a window that steps back from a January into the December before it
C12_Witness ==
    /\ pc = "months"
    /\ today[2] = 3
    /\ KeyMonth(months[3]) = 1
    /\ KeyMonth(months[4]) = 12
    /\ KeyYear(months[4]) = today[1] - 1

-----------------------------------------------------------------------------
(* Properties of build_accurate_summary, checked under SpecSummary         *)

\* sub occurs in s
Contains(s, sub) ==
    \E i \in 1..(Len(s) - Len(sub) + 1) : SubSeq(s, i, i + Len(sub) - 1) = sub

NoCrimesReported ==
    <<"n", "o", " ", "c", "r", "i", "m", "e", "s", " ", "r", "e", "p", "o",
    "r", "t", "e", "d">>
LowCrime == <<"L", "o", "w", " ", "c", "r", "i", "m", "e">>
ModerateCrime == <<"M", "o", "d", "e", "r", "a", "t", "e", " ", "c", "r", "i", "m",
        "e">>
HighCrimeArea == <<"H", "i", "g", "h", " ", "c", "r", "i", "m", "e", " ", "a", "r",
        "e", "a">>

\* C13: the sentence is banded by the total: 0 gives "no crimes reported",
\* 1 to 5 "Low crime", 6 to 20 "Moderate crime", 21 and more "High crime
\* area", and no sentence carries the words of two bands.
C13_BandsByTotal ==
    summary.called =>
        LET total == summary_args.agg.total
            text == summary.text
        IN  /\ total >= 0
            /\ Contains(text, NoCrimesReported) <=> total = 0
            /\ Contains(text, LowCrime) <=> total \in 1..5
            /\ Contains(text, ModerateCrime) <=> total \in 6..20
            /\ Contains(text, HighCrimeArea) <=> total >= 21

\* the sentence of the largest total of the moderate band
C13_Witness ==
    /\ summary.called
    /\ summary_args.agg.total = 20
    /\ Contains(summary.text, ModerateCrime)
    /\ ~Contains(summary.text, HighCrimeArea)

\* the human-cased names of the categories of the model
PrettyName(category) ==
    CASE category = "burglary" -> <<"B", "u", "r", "g", "l", "a",
                                        "r", "y">>
      [] category = "anti-social-behaviour" ->
            <<"A", "n", "t", "i", " ", "S", "o", "c", "i", "a", "l", " ",
            "B", "e", "h", "a", "v", "i", "o", "u", "r">>
      [] category = "vehicle-crime" ->
            <<"V", "e", "h", "i", "c", "l", "e", " ", "C", "r", "i", "m",
            "e">>
      [] category = "unknown" -> <<"U", "n", "k", "n", "o", "w", "n">>

\* the categories and the streets the sentence is to name: the first two of
\* each tally of the aggregate
TopCategories == FirstN(Keys(summary_args.agg.by_category), 2)
TopStreets == FirstN(Keys(summary_args.agg.top_streets), 2)

NamesCategories ==
    \A i \in DOMAIN TopCategories :
        Contains(summary.text, PrettyName(TopCategories[i]))

NamesTrend ==
    Contains(summary.text, <<"(">> \o Spell(summary_args.agg.trend) \o <<" ", "t", "r", "e", "n", "d", ")">>)

NamesStreets ==
    /\ TopStreets # <<>>
    /\ \A i \in DOMAIN TopStreets : Contains(summary.text, Spell(TopStreets[i]))

\* C14 as claimed: every sentence, the one of total = 0 too, names the top
\* categories and the trend word, and names streets only when total > 0.
C14_EverySentenceNames ==
    summary.called =>
        /\ NamesCategories
        /\ NamesTrend
        /\ NamesStreets => summary_args.agg.total > 0

\* C14: the sentences of the three bands of total > 0 name the top two
\* categories, the trend word and the top two streets; the sentence of
\* total = 0 names no category, no trend and no street.
C14_NamesWhenCrimes ==
    summary.called =>
        IF summary_args.agg.total > 0
        THEN /\ Len(TopCategories) >= 1
             /\ Len(TopCategories) = 2 \/ Len(summary_args.agg.by_category) = 1
             /\ NamesCategories
             /\ NamesTrend
             /\ NamesStreets
        ELSE /\ ~Contains(summary.text, <<"m", "a", "i", "n", "l", "y">>)
             /\ ~Contains(summary.text, <<"t", "r", "e", "n", "d">>)
             /\ ~Contains(summary.text, <<"n", "e", "a", "r">>)
             /\ \A w \in {"stable", "rising", "falling"} :
                    ~Contains(summary.text, Spell(w))

\* a sentence of the low band that names two categories, two streets and a
\* falling trend
C14_Witness ==
    /\ summary.called
    /\ summary_args.agg.total = 4
    /\ summary_args.agg.trend = "falling"
    /\ Len(TopCategories) = 2
    /\ Len(TopStreets) = 2
    /\ NamesCategories /\ NamesTrend /\ NamesStreets

-----------------------------------------------------------------------------
(* Properties of the merge of run_crime_data_step, checked under SpecMerge *)

\* the summaries, by position, that resolved to record i so far
ResolvedTo(i) == {j \in DOMAIN merge_log : merge_log[j].target = i}

Min(S) == CHOOSE x \in S : \A y \in S : x <= y

\* C15: a record that two or more summaries resolve to holds, after the
\* merge, the summary and the aggregate of the first of them.
C15_FirstMatchWins ==
    mpc = "merged" =>
        \A i \in DOMAIN scraped :
            ResolvedTo(i) # {} =>
                /\ scraped[i].crime_summary = summaries[Min(ResolvedTo(i))].summary
                /\ scraped[i].crime_data = summaries[Min(ResolvedTo(i))].aggregate

\* the two summaries of the example of C16, in millionths of a degree
SummaryAt5150001 == Summary(Deg(51500010), Deg(-99990), EmptyStr, "B")
SummaryAt51500001 == Summary(Deg(51500001), Deg(-99999), Nowhere, "C")

\* the coordinates, in millionths, that a record is indexed by
PairOf(prop) ==
    <<CoordOr(prop.lat, prop.latitude).v, CoordOr(prop.lon, prop.longitude).v>>

\* the file of the example: records at (51.50000, -0.10000) and (51.60000,
\* -0.20000)
ExampleFile ==
    /\ Len(scraped) = 2
    /\ PairOf(scraped[1]) = <<51500000, -100000>>
    /\ PairOf(scraped[2]) = <<51600000, -200000>>

\* C16 as claimed: with records at (51.50000, -0.10000) and (51.60000,
\* -0.20000), the summary at (51.50001, -0.09999) is matched through the
\* coordinate index to the first record and to no other.
C16_ExampleMatchesFirst ==
    \A j \in DOMAIN merge_log :
        (ExampleFile /\ summaries[j] = SummaryAt5150001) =>
            /\ merge_log[j].coords_target = 1
            /\ merge_log[j].target = 1

Within(a, b, d) == a - b < d /\ b - a < d

\* C16: the coordinate index matches within the fifth decimal and not across
\* it: a record matched through it lies less than 0.00001 from the summary in
\* latitude and in longitude; with records at (51.50000, -0.10000) and
\* (51.60000, -0.20000) the summary at (51.500001, -0.099999) is matched
\* through it to the first record and to no other, and the summary at
\* (51.50001, -0.09999) is not matched through it.
C16_FifthDecimalTolerance ==
    \A j \in DOMAIN merge_log :
        /\ merge_log[j].coords_target # 0 =>
            /\ Within(PairOf(scraped[merge_log[j].coords_target])[1], summaries[j].lat.v, 10)
            /\ Within(PairOf(scraped[merge_log[j].coords_target])[2], summaries[j].lng.v, 10)
        /\ (ExampleFile /\ summaries[j] = SummaryAt51500001) =>
            /\ merge_log[j].coords_target = 1
            /\ merge_log[j].target = 1
            /\ merge_log[j].changed \subseteq {1}
        /\ (ExampleFile /\ summaries[j] = SummaryAt5150001) =>
            /\ merge_log[j].coords_target = 0
            /\ merge_log[j].target = 0

\* the example file after the summary at (51.500001, -0.099999) reached its
\* first record
C16_Witness ==
    /\ mpc = "merged"
    /\ ExampleFile
    /\ summaries = <<SummaryAt51500001>>
    /\ merge_log[1].coords_target = 1
    /\ scraped[1].crime_summary = "C"
    /\ scraped[2].crime_summary = "absent"

\* whether the rounded coordinates of summary c are in the coordinate index
CoordinateHit(c) ==
    /\ c.lat.t = "float"
    /\ c.lng.t = "float"
    /\ <<Round5(c.lat.v), Round5(c.lng.v)>> \in DOMAIN by_coords

\* C17: the address index is looked up only for a summary whose coordinates
\* gave no record (a miss, or no parseable pair), a coordinate hit decides the
\* record, and a summary that neither index knows changes no record.
C17_CoordinatesThenAddress ==
    \A j \in DOMAIN merge_log :
        /\ merge_log[j].addr_consulted => ~CoordinateHit(summaries[j])
        /\ CoordinateHit(summaries[j]) =>
            merge_log[j].target =
                by_coords[<<Round5(summaries[j].lat.v), Round5(summaries[j].lng.v)>>]
        /\ (~CoordinateHit(summaries[j]) /\ Strip(Or(summaries[j].address, EmptyStr).s) # <<>>) =>
            merge_log[j].addr_consulted
        /\ merge_log[j].target = 0 => merge_log[j].changed = {}

\* a summary whose coordinates name one record and whose address names
\* another went to the record of the coordinates; one without coordinates went
\* by its address; one that nothing matches changed nothing
C17_Witness ==
    /\ mpc = "merged"
    /\ Len(merge_log) = 2
    /\ CoordinateHit(summaries[1])
    /\ NormAddr(summaries[1].address, EmptyStr) \in DOMAIN by_addr
    /\ by_addr[NormAddr(summaries[1].address, EmptyStr)] # merge_log[1].target
    /\ ~merge_log[1].addr_consulted
    /\ merge_log[2].addr_consulted
    /\ merge_log[2].target = 0
    /\ merge_log[2].changed = {}

\* C18: each summary is written to at most one record, also when records
\* share a rounded coordinate pair or a normalized address.
C18_OneRecordPerSummary ==
    \A j \in DOMAIN merge_log :
        /\ Cardinality(merge_log[j].changed) <= 1
        /\ merge_log[j].changed \subseteq {merge_log[j].target}

SharePair(i, k) ==
    /\ RoundedPair(scraped[i]) = RoundedPair(scraped[k])
    /\ RoundedPair(scraped[i])[1].t = "float"
    /\ RoundedPair(scraped[i])[2].t = "float"

\* two records with one rounded pair and one normalized address, and a
\* summary that reached one of them
C18_Witness ==
    /\ mpc = "merged"
    /\ \E i, k \in DOMAIN scraped :
        /\ i < k
        /\ SharePair(i, k)
        /\ NormAddr(scraped[i].address_full, scraped[i].address) =
           NormAddr(scraped[k].address_full, scraped[k].address)
        /\ \E j \in DOMAIN merge_log : merge_log[j].changed = {k}
        /\ scraped[i].crime_summary = "absent"

\* a record with no pair of numbers for its coordinates and no address but
\* blanks
Unlocated(prop) ==
    /\ ~(CoordOr(prop.lat, prop.latitude).t = "float" /\
         CoordOr(prop.lon, prop.longitude).t = "float")
    /\ \A a \in {prop.address_full, prop.address} :
        a = PyNone \/ \A n \in DOMAIN a.s : a.s[n] = " "

InIndex(index, i) == \E k \in DOMAIN index : index[k] = i

\* C19: a record with neither a parseable coordinate pair nor a non-empty
\* address is in neither index, and whatever the summaries are it never gets a
\* crime_summary or a crime_data.
C19_UnlocatedStaysBare ==
    \A i \in DOMAIN scraped :
        Unlocated(scraped[i]) =>
            /\ ~InIndex(by_coords, i)
            /\ ~InIndex(by_addr, i)
            /\ scraped[i].crime_summary = "absent"
            /\ scraped[i].crime_data = "absent"

\* a merge that enriched a record beside an unlocated one, with a summary
\* that has no coordinates and no address among the summaries
C19_Witness ==
    /\ mpc = "merged"
    /\ \E i \in DOMAIN scraped : Unlocated(scraped[i])
    /\ \E i \in DOMAIN scraped : scraped[i].crime_summary # "absent"
    /\ \E j \in DOMAIN summaries : summaries[j].lat = NoCoord /\ summaries[j].address = PyNone

-----------------------------------------------------------------------------
(* Properties of run_property_crime_summaries, checked under SpecRun       *)

\* the latitude and the longitude that the loader of this run reads of a
\* record
ReadLat(p) ==
    CASE loader = "pipeline" -> CoordOr(p.lat, p.latitude)
      [] loader = "script" -> p.lat
      [] loader = "sample" -> p.latitude

ReadLng(p) ==
    CASE loader = "pipeline" -> CoordOr(p.lon, p.longitude)
      [] loader = "script" -> p.lon
      [] loader = "sample" -> p.longitude

\* C20: aggregate_6month_crime is never called for a property whose latitude
\* or longitude is missing or zero: the loader leaves such a property out of
\* the list.
C20_NoAggregateWithoutCoordinates ==
    /\ \A n \in DOMAIN invocations :
        /\ ~MissingOrZero(ReadLat(scraped[invocations[n].src]))
        /\ ~MissingOrZero(ReadLng(scraped[invocations[n].src]))
        /\ invocations[n].lat.v # 0
        /\ invocations[n].lng.v # 0
    /\ \A n \in DOMAIN properties :
        /\ ~MissingOrZero(properties[n].lat)
        /\ ~MissingOrZero(properties[n].lng)

-----------------------------------------------------------------------------
(* Properties of geoapify_geocode, checked under SpecGeocode               *)

RateLimited(r) == r.raises = "no" /\ r.status = 429
Found(r) == r.raises = "no" /\ r.status = 200 /\ r.body \in {"pair", "short"}
AlwaysRateLimited == \A k \in 1..Len(responses) : RateLimited(responses[k])

\* C21: geoapify_geocode retries only on HTTP 429, waits 2^attempt seconds
\* before each retry (2, 4, 8), makes at most MAX_RETRIES = 3 retries (4
\* requests in total) and then returns None; every other failure returns
\* None without a retry, so the number of requests is bounded and the call
\* ends.
C21_BoundedBackoff ==
    /\ Len(responses) <= MAX_RETRIES + 1
    /\ Len(sleeps) <= MAX_RETRIES
    /\ attempt = Len(sleeps) + 1
    /\ \A k \in 1..Len(sleeps) : sleeps[k] = 2 ^ k /\ RateLimited(responses[k])
    /\ \A k \in 1..Len(responses) :
        k < Len(responses) => RateLimited(responses[k])
    /\ gpc = "returned" =>
        /\ Len(sleeps) = Len(responses) - IF query = <<>> THEN 0 ELSE 1
        /\ query # <<>> /\ AlwaysRateLimited =>
            /\ Len(responses) = 4
            /\ sleeps = <<2, 4, 8>>
            /\ geo_result = GeoNone
        /\ query # <<>> /\ ~Found(responses[Len(responses)]) =>
            geo_result = GeoNone
        /\ query = <<>> => responses = <<>> /\ geo_result = GeoNone

C21_Witness ==
    /\ gpc = "returned"
    /\ Len(responses) = MAX_RETRIES + 1
    /\ AlwaysRateLimited
    /\ sleeps = <<2, 4, 8>>
    /\ geo_result = GeoNone

-----------------------------------------------------------------------------
(* More properties of extract_from_html, checked under SpecExtract         *)

\* what the "for sale" rule finds in the text of this call, and the
\* display_address the ad-targeting layer left in the record
TextAddress == _extract_address(Txt)
DisplayAddress == Get(AfterZad(html).out, "display_address")

\* C22: when the visible text yields no address and the ad-targeting block
\* supplies a non-empty display_address, the returned record has address
\* equal to display_address; when the text yields an address, the record
\* keeps that address whatever display_address is.
C22_DisplayAddressFillsIn ==
    Returned =>
        /\ ~Truthy(TextAddress) /\ Truthy(DisplayAddress) =>
            /\ "address" \in DOMAIN result.value
            /\ result.value["address"] = DisplayAddress
        /\ Truthy(TextAddress) =>
            /\ "address" \in DOMAIN result.value
            /\ result.value["address"] = TextAddress

\* a text with no usable address beside a block with a display_address
C22_Witness ==
    /\ Returned
    /\ ~Truthy(TextAddress)
    /\ Truthy(DisplayAddress)
    /\ result.value["address"] = DisplayAddress
    /\ result.value["display_address"] = DisplayAddress

\* a text with an address beside a block with another display_address
C22_WitnessKept ==
    /\ Returned
    /\ Truthy(TextAddress)
    /\ Truthy(DisplayAddress)
    /\ DisplayAddress # TextAddress
    /\ result.value["address"] = TextAddress

-----------------------------------------------------------------------------
(* Properties of the tallies of aggregate_6month_crime, checked under      *)
(* SpecTally                                                               *)

\* the count a tally of <<name, count>> pairs holds for a name, 0 when the
\* name is not in it
CountIn(tally, name) ==
    IF \E i \in DOMAIN tally : tally[i][1] = name
    THEN (CHOOSE pair \in {tally[i] : i \in DOMAIN tally} : pair[1] = name)[2]
    ELSE 0

HowMany(which) == Cardinality({i \in DOMAIN all_crimes : which[i]})

StreetNameAbsent ==
    [i \in DOMAIN all_crimes |->
        LET c == all_crimes[i]
        IN  \/ c.location # "object"
            \/ c.street # "object"
            \/ c.street_name \in {"", "null"}]
CategoryMissing == [i \in DOMAIN all_crimes |-> all_crimes[i].category = ""]
OutcomeStatusAbsent ==
    [i \in DOMAIN all_crimes |-> all_crimes[i].outcome_status # "object"]

\* C23: for every incident whose nested street name is absent (location,
\* street or name missing or null) the aggregation counts the incident under
\* the street "Unknown" and completes without raising; a missing category
\* counts as "unknown" and a missing or null outcome_status as "Not provided".
C23_AbsentPartsAreDefaulted ==
    /\ pc # "raised"
    /\ pc = "done" =>
        /\ CountIn(agg.top_streets, "Unknown") >= HowMany(StreetNameAbsent)
        /\ CountIn(agg.by_category, "unknown") >= HowMany(CategoryMissing)
        /\ CountIn(agg.outcomes, "Not provided") >= HowMany(OutcomeStatusAbsent)

\* the streets and categories of the pool and how often each occurs
PoolStreets == {StreetOf(all_crimes[i]) : i \in DOMAIN all_crimes}
PoolCategories == {CategoryOf(all_crimes[i]) : i \in DOMAIN all_crimes}
StreetCount(name) ==
    Cardinality({i \in DOMAIN all_crimes : StreetOf(all_crimes[i]) = name})
CategoryCount(name) ==
    Cardinality({i \in DOMAIN all_crimes : CategoryOf(all_crimes[i]) = name})
NamesOf(tally) == {tally[i][1] : i \in DOMAIN tally}

\* C24: in the returned aggregate top_streets has at most 3 entries, each
\* with the count of its street, and no street left out of it has a strictly
\* higher count than a street in it; by_category lists every category of the
\* pool once, with its count, in non-increasing order of count.
C24_TopThreeAndRanking ==
    pc = "done" =>
        /\ Len(agg.top_streets) <= 3
        /\ NamesOf(agg.top_streets) \subseteq PoolStreets
        /\ \A i \in DOMAIN agg.top_streets :
            /\ agg.top_streets[i][2] = StreetCount(agg.top_streets[i][1])
            /\ \A out \in PoolStreets \ NamesOf(agg.top_streets) :
                StreetCount(out) <= agg.top_streets[i][2]
        /\ NamesOf(agg.by_category) = PoolCategories
        /\ Len(agg.by_category) = Cardinality(PoolCategories)
        /\ \A i \in DOMAIN agg.by_category :
            /\ agg.by_category[i][2] = CategoryCount(agg.by_category[i][1])
            /\ i > 1 => agg.by_category[i - 1][2] >= agg.by_category[i][2]

\* a pool of four streets of which the last seen is the most frequent, and
\* of categories with different counts
C24_Witness ==
    /\ pc = "done"
    /\ Len(agg.top_streets) = 3
    /\ PoolStreets \ NamesOf(agg.top_streets) # {}
    /\ agg.top_streets[1][1] = StreetOf(all_crimes[Len(all_crimes)])
    /\ agg.top_streets[1][1] # StreetOf(all_crimes[1])
    /\ agg.top_streets[1][2] > agg.top_streets[3][2]
    /\ Len(agg.by_category) >= 2
    /\ agg.by_category[1][2] > agg.by_category[Len(agg.by_category)][2]

-----------------------------------------------------------------------------
(* More properties of aggregate_6month_crime, checked under SpecCrime      *)

RECURSIVE SumTally(_)
SumTally(tally) ==
    IF tally = <<>> THEN 0 ELSE tally[1][2] + SumTally(Tail(tally))

EmptyMonths == {i \in DOMAIN months : agg.monthly_counts[months[i]] = 0}

\* C25: whatever the six fetches met, the returned aggregate has total equal
\* to the sum of monthly_counts, to the sum of the by_category counts and to
\* the sum of the outcomes counts; the top_streets counts add up to at most
\* total; total is 0 exactly when every one of the six months is empty or
\* failed.
C25_TotalsAgree ==
    pc = "done" =>
        /\ agg.total = Len(all_crimes)
        /\ DOMAIN agg.monthly_counts = {months[i] : i \in DOMAIN months}
        /\ agg.total = SumCounts(agg.monthly_counts, months)
        /\ agg.total = SumTally(agg.by_category)
        /\ agg.total = SumTally(agg.outcomes)
        /\ SumTally(agg.top_streets) <= agg.total
        /\ agg.total = 0 <=> Cardinality(EmptyMonths) = NumMonths

\* an aggregate of more than three streets, with a failed month and a month
\* that answered
C25_Witness ==
    /\ pc = "done"
    /\ agg.total > 0
    /\ SumTally(agg.top_streets) < agg.total
    /\ Len(agg.by_category) > 1
    /\ \E i \in DOMAIN calls : calls[i].op = "get" /\ ~calls[i].ok
    /\ EmptyMonths # {}

-----------------------------------------------------------------------------
(* Properties of the data path of run_crime_data_step, checked under       *)
(* SpecStep                                                                *)

\* the coordinates the step reads of a record, and whether both are there
LatOf(rec) == CoordOr(rec.lat, rec.latitude)
LngOf(rec) == CoordOr(rec.lon, rec.longitude)
HasCoordinates(rec) == ~MissingOrZero(LatOf(rec)) /\ ~MissingOrZero(LngOf(rec))
Summarised == {invocations[n].src : n \in DOMAIN invocations}
SameCoordinates(i, j) ==
    LatOf(scraped[i]) = LatOf(scraped[j]) /\ LngOf(scraped[i]) = LngOf(scraped[j])
OwnData(i) == {ComputedFor(j) : j \in {k \in DOMAIN scraped : SameCoordinates(i, k)}}

\* C26: after the merge every scraped record within the first 100 that has
\* non-null, non-zero latitude and longitude, and for which a summary was
\* generated, carries the crime_summary and crime_data computed for its own
\* coordinates, also when several records share a rounded coordinate pair.
C26_EveryLocatedRecordEnriched ==
    mpc = "merged" =>
        \A i \in DOMAIN scraped :
            i <= PipelineMaxItems /\ HasCoordinates(scraped[i]) /\ i \in Summarised =>
                /\ scraped[i].crime_summary \in OwnData(i)
                /\ scraped[i].crime_data \in OwnData(i)

-----------------------------------------------------------------------------
(* More properties of the merge, checked under SpecMerge                   *)

\* a record without the two keys the merge writes
OtherFields(rec) ==
    [k \in DOMAIN rec \ {"crime_summary", "crime_data"} |-> rec[k]]

Targets == {merge_log[n].target : n \in DOMAIN merge_log}

\* C27: no step of the merge changes the number of records, their order or
\* any field of a record other than crime_summary and crime_data, and the
\* only record a step changes is the one the current summary is matched to.
C27_OnlyCrimeKeysChange ==
    [][/\ Len(scraped') = Len(scraped)
       /\ \A i \in DOMAIN scraped :
            /\ OtherFields(scraped'[i]) = OtherFields(scraped[i])
            /\ scraped'[i] # scraped[i] =>
                /\ mpc = "merge"
                /\ i = MatchTarget(summaries[cursor], by_coords, by_addr).target]_vars

\* a finished merge of two records: one was matched and carries a summary, the
\* other was matched by no summary and has neither key
C27_Witness ==
    /\ mpc = "merged"
    /\ Len(scraped) = 2
    /\ \E i, j \in DOMAIN scraped :
        /\ i \in Targets
        /\ scraped[i].crime_data # "absent"
        /\ j \notin Targets
        /\ scraped[j].crime_summary = "absent"
        /\ scraped[j].crime_data = "absent"

-----------------------------------------------------------------------------
(* Properties of the run ledger and of run_pipeline, checked under         *)
(* SpecPipeline                                                            *)

StatusOf(k) == run_status[StepOrder[k]].status
Ended == ppc = "done"
AllCompleted == \A step \in Steps : run_status[step].status = "completed"

\* C28: the stages are started in the order scraping, crime_data,
\* preprocessing, each only when the one before it has status completed;
\* when a stage has failed every later stage keeps status pending and is not
\* started, and run_pipeline returns False.
C28_OrderAndStopAtFailure ==
    /\ Len(started) <= Len(StepOrder)
    /\ \A k \in DOMAIN started :
        /\ started[k] = StepOrder[k]
        /\ k > 1 => StatusOf(k - 1) = "completed"
    /\ \A k \in DOMAIN StepOrder :
        StatusOf(k) = "failed" =>
            /\ \A j \in DOMAIN StepOrder :
                j > k => StatusOf(j) = "pending" /\ j \notin DOMAIN started
            /\ Ended => returned = "False"

\* what holds of the order and of a failed stage whatever the log calls do:
\* after a failed stage run_pipeline returns False or raises, never True
OrderAndNoSuccessAfterFailure ==
    /\ Len(started) <= Len(StepOrder)
    /\ \A k \in DOMAIN started :
        /\ started[k] = StepOrder[k]
        /\ k > 1 => StatusOf(k - 1) = "completed"
    /\ \A k \in DOMAIN StepOrder :
        StatusOf(k) = "failed" =>
            /\ \A j \in DOMAIN StepOrder :
                j > k => StatusOf(j) = "pending" /\ j \notin DOMAIN started
            /\ Ended => returned \in {"False", "Exception"}

Forward(before, after) ==
    \/ before = after
    \/ before = "pending" /\ after = "running"
    \/ before = "running" /\ after \in {"completed", "failed"}

WellFormed(entry) ==
    /\ entry.status \in {"pending", "running", "completed", "failed"}
    /\ entry.status \in {"completed", "failed"} => entry.start # 0 /\ entry.end # 0
    /\ entry.status = "pending" => entry.start = 0 /\ entry.end = 0
    /\ entry.error # <<>> <=> entry.status = "failed"

\* C29: the status of a stage only moves pending -> running -> completed or
\* failed and never leaves completed or failed; a stage that is completed or
\* failed has start and end set, a pending one has neither, and error is
\* non-null exactly when the status is failed.
C29_LedgerWellFormed ==
    [][\A step \in Steps :
            /\ Forward(run_status[step].status, run_status'[step].status)
            /\ WellFormed(run_status[step])
            /\ WellFormed(run_status'[step])]_vars

\* a run that ended with a completed stage, a failed stage and a pending one
C29_Witness ==
    /\ Ended
    /\ StatusOf(1) = "completed" /\ run_status["scraping"].end > run_status["scraping"].start
    /\ StatusOf(2) = "failed" /\ run_status["crime_data"].error[1] = "crime_data"
    /\ StatusOf(3) = "pending"

\* C30: every call of run_pipeline ends with save_run_summary executed
\* exactly once; the overall_status it records is "completed" exactly when
\* the three stages are completed, which is exactly when run_pipeline returns
\* True.
C30_SummarySavedOnce ==
    Ended =>
        /\ Len(saved) = 1
        /\ saved[1].overall_status = "completed" <=> AllCompleted
        /\ AllCompleted <=> returned = "True"

\* what holds of the summary whatever the log calls do: it is saved once
\* unless the log before the try block raised, its overall_status is
\* "completed" exactly when the three stages are, and True is returned only
\* for three completed stages and a summary that was written
SavedOnceInsideTry ==
    Ended =>
        /\ Len(saved) <= 1
        /\ saved = <<>> <=> started = <<>> /\ clock = 0 /\ returned = "Exception"
        /\ saved # <<>> => (saved[1].overall_status = "completed" <=> AllCompleted)
        /\ returned = "True" => AllCompleted /\ saved # <<>> /\ saved[1].written
        /\ AllCompleted => returned \in {"True", "False", "Exception"}

====
